---- MODULE Spec2Model ----
(***************************************************************************)
(* A model of mixinforge's object-graph algorithms: the stack-based        *)
(* traversal of nested_collections_inspector.py (flatten / find), the      *)
(* reconstruction of nested_collections_transformer.py (transform) and the *)
(* JSON serialization of json_processor.py (dumpjs / loadjs,               *)
(* update_jsparams / access_jsparams), and the instance lifecycle that     *)
(* guarded_init_metaclass.py enforces (GuardedInitMeta.__call__ and the    *)
(* wrapped __setstate__).                                                  *)
(*                                                                         *)
(* Python objects live in a heap: a sequence of object records indexed by  *)
(* object identity (id(x)).  A record has a kind, a value (leaves), keys   *)
(* (mappings) and items (elements, mapping values or attribute values).    *)
(***************************************************************************)
EXTENDS Integers, Sequences, FiniteSets, TLC

VARIABLES
    heap,       \* the object graph: heap[i] is the object whose id is i
    root,       \* the object passed to the operation
    pc,         \* where the operation stands: "idle", then "run", "dumped",
                \* "loaded", "updated", "accessed", "done", "error", ...; for
                \* GuardedInitMeta the statement the call has reached
    args,       \* the arguments of the running operation
    stack,      \* _traverse: stack of iterators (remaining children)
    seen_ids,   \* _traverse: ids already visited in this pass
    visited,    \* _traverse: the objects it yielded, in order
    out,        \* what flatten / find yielded to the caller, in order;
                \* for GuardedInitMeta the calls of user code, in order
    res         \* the outcome of serialize / deserialize / transform;
                \* for GuardedInitMeta the instance

vars == <<heap, root, pc, args, stack, seen_ids, visited, out, res>>

(***************************************************************************)
(* Bounds of the model.                                                    *)
(***************************************************************************)
NLeaf == 2          \* leaf objects in an input graph
NCont == 2          \* containers in an input graph
MaxLen == 2         \* elements / attributes of one container
MaxDictLen == 1     \* entries of one mapping
NSlots == 2         \* slots the slotted class declares

(***************************************************************************)
(* The heap.                                                               *)
(***************************************************************************)
Leaves == 1..NLeaf

LeafKinds == {"int", "str"}
ImmutableKinds == {"tuple"}

Obj(kind, val, keys, items) ==
    [kind |-> kind, val |-> val, keys |-> keys, items |-> items]

\* Sequences over S of length 0..n.
SeqsUpTo(S, n) == UNION {[1..k -> S] : k \in 0..n}

\* Sequences over S without repetition, of length 0..n.
InjSeqsUpTo(S, n) ==
    {s \in SeqsUpTo(S, n) : \A i, j \in DOMAIN s : s[i] = s[j] => i = j}

\* What an object refers to: mapping keys, then elements / values / attributes.
Children(h, i) == h[i].keys \o h[i].items

Range(s) == {s[i] : i \in DOMAIN s}

RECURSIVE ReachFrom(_, _, _)
ReachFrom(h, frontier, acc) ==
    IF frontier = {} THEN acc
    ELSE LET acc2 == acc \cup frontier
             nxt  == UNION {Range(Children(h, i)) : i \in frontier}
         IN ReachFrom(h, nxt \ acc2, acc2)

\* The objects reachable from i, i included.
Reach(h, i) == ReachFrom(h, {i}, {})

\* The objects reachable from i through at least one reference.
ReachPlus(h, i) == ReachFrom(h, Range(Children(h, i)), {})

RECURSIVE ImmReachFrom(_, _, _)
ImmReachFrom(h, frontier, acc) ==
    IF frontier = {} THEN acc
    ELSE LET acc2 == acc \cup frontier
             nxt  == UNION {Range(Children(h, i)) :
                              i \in {j \in frontier : h[j].kind \in ImmutableKinds}}
         IN ImmReachFrom(h, nxt \ acc2, acc2)

\* A graph pure Python can build: a tuple is complete when it is created, so a
\* cycle never consists of tuples alone.
Constructible(h) ==
    \A i \in DOMAIN h :
        h[i].kind \in ImmutableKinds =>
            i \notin ImmReachFrom(h, Range(Children(h, i)), {})

\* The container records of each kind over the objects ids (keys are leaves).
ContRecs(kind, ids) ==
    IF kind = "dict"
    THEN UNION {{Obj("dict", 0, ks, vs) : vs \in [1..Len(ks) -> ids]} :
                   ks \in InjSeqsUpTo(Leaves, MaxDictLen)}
    ELSE {Obj(kind, 0, <<>>, s) : s \in SeqsUpTo(ids, MaxLen)}

\* The leaves: distinct objects holding equal values (1000 and 1000, 1.5 and
\* 1.5); the last one is an int or a str.
LeafHeaps == {[i \in Leaves |-> IF i = NLeaf THEN Obj(k, 1, <<>>, <<>>)
                                ELSE Obj("int", 1, <<>>, <<>>)] :
                 k \in LeafKinds}

\* Heaps of NLeaf leaves followed by n containers of the given kinds.
Graphs(n, kinds) ==
    LET ids   == 1..(NLeaf + n)
        recs  == UNION {ContRecs(k, ids) : k \in kinds}
    IN {l \o c : l \in LeafHeaps, c \in [1..n -> recs]}

(***************************************************************************)
(* atomics_detector.py / nested_collections_inspector.py: classification.  *)
(***************************************************************************)
\* is_atomic_object: str, int, ... are registered atomic types.
is_atomic_object(h, i) == h[i].kind \in LeafKinds

\* isinstance(obj, Iterable)
IsIterable(h, i) == h[i].kind \in {"list", "tuple", "set", "dict", "str"}

\* isinstance(obj, Mapping)
IsMapping(h, i) == h[i].kind = "dict"

is_standard_mapping(h, i) == h[i].kind = "dict"

is_standard_iterable(h, i) == h[i].kind \in {"list", "tuple", "set"}

\* isinstance(obj, classinfo): classinfo is modelled as a set of kinds.
IsInstance(h, i, classinfo) == h[i].kind \in classinfo

\* Traversability decided by iterability alone.
is_iterable_collection(h, i) == IsIterable(h, i)

is_traversable_collection(h, i) ==
    IF is_atomic_object(h, i) THEN FALSE
    ELSE IF ~IsIterable(h, i) THEN FALSE
    ELSE TRUE

\* chain(mapping.keys(), mapping.values())
create_standard_mapping_iterator(h, i) == h[i].keys \o h[i].items

\* "no iterator": the child-extraction function returned None (0 is no id)
None == <<0>>

\* _get_children_from_object: the general child-extraction policy.
get_children_from_object(h, i) ==
    IF is_atomic_object(h, i) THEN <<>>
    ELSE IF is_standard_mapping(h, i) THEN create_standard_mapping_iterator(h, i)
    ELSE IF is_standard_iterable(h, i) THEN h[i].items
    ELSE h[i].items      \* _yield_attributes: the values of __dict__

\* flatten_nested_collection._get_children
flatten_get_children(h, i) ==
    IF is_traversable_collection(h, i)
    THEN IF IsMapping(h, i) THEN create_standard_mapping_iterator(h, i)
         ELSE h[i].items
    ELSE None

\* Child extraction of find that never stops at a match.
find_get_children_through_matches(h, i, classinfo, deep_search) ==
    IF is_atomic_object(h, i) THEN None
    ELSE get_children_from_object(h, i)

\* find_instances_inside_composite_object._get_children
find_get_children(h, i, classinfo, deep_search) ==
    IF is_atomic_object(h, i) THEN None
    ELSE IF ~deep_search /\ IsInstance(h, i, classinfo) THEN None
    ELSE get_children_from_object(h, i)

\* The child-extraction function of the running traversal.
get_children_fn(h, a, i) ==
    IF a.op = "flatten" THEN flatten_get_children(h, i)
    ELSE find_get_children(h, i, a.classinfo, a.deep_search)

(***************************************************************************)
(* nested_collections_inspector.py: _traverse, flatten, find.              *)
(***************************************************************************)
\* What find may be asked to look for (isinstance's classinfo, as kinds).
ClassInfos == {{"int"}, {"obj"}}

\* The classes of the model; "5" stands for an object that is not a class.
Types ==
    {"int", "str", "none", "func", "enum", "list", "tuple", "set", "dict",
     "obj", "params"}

\* Arguments that are not a classinfo: 5 and (int, 5).
InvalidClassInfos == {{"5"}, {"int", "5"}}

ClassInfoArgs == ClassInfos \cup InvalidClassInfos

\* A validity check that accepts everything.
classinfo_never_checked(classinfo) == TRUE

\* _is_valid_classinfo: a type, or a tuple whose items are all valid.
is_valid_classinfo(classinfo) == \A item \in classinfo : item \in Types

NoArgs == [op |-> "none", classinfo |-> {}, deep_search |-> TRUE]

Top(s) == s[Len(s)]
Pop(s) == SubSeq(s, 1, Len(s) - 1)

\* The consumer's filter on what _traverse yields.
Yields(h, a, i) ==
    IF a.op = "flatten" THEN ~is_traversable_collection(h, i)
    ELSE IsInstance(h, i, a.classinfo)

\* flatten_nested_collection(root), first pull: the argument check, then
\* _traverse's set-up.
StartFlatten ==
    /\ pc = "idle"
    /\ args' = [op |-> "flatten", classinfo |-> {}, deep_search |-> TRUE]
    /\ IF ~IsIterable(heap, root) \/ is_atomic_object(heap, root)
       THEN /\ pc' = "error"
            /\ res' = "TypeError"
            /\ UNCHANGED stack
       ELSE /\ pc' = "run"
            /\ stack' = << <<root>> >>
            /\ UNCHANGED res
    /\ UNCHANGED <<heap, root, seen_ids, visited, out>>

\* find_instances_inside_composite_object(root, classinfo, deep_search),
\* first pull of the generator: the classinfo check, then _traverse's set-up.
StartFind ==
    /\ pc = "idle"
    /\ \E c \in ClassInfoArgs, d \in BOOLEAN :
          args' = [op |-> "find", classinfo |-> c, deep_search |-> d]
    /\ IF ~is_valid_classinfo(args'.classinfo)
       THEN /\ pc' = "error"
            /\ res' = "TypeError"
            /\ UNCHANGED stack
       ELSE /\ pc' = "run"
            /\ stack' = << <<root>> >>
            /\ UNCHANGED res
    /\ UNCHANGED <<heap, root, seen_ids, visited, out>>

\* A membership test by equality of value instead of identity.
AlreadySeenByValue(h, seen, current) ==
    \E s \in seen :
        \/ s = current
        \/ /\ is_atomic_object(h, s)
           /\ is_atomic_object(h, current)
           /\ h[s] = h[current]

\* obj_id in seen_ids
AlreadySeen(h, seen, current) == current \in seen

\* A visit that is not recorded.
MarkSeenNever(seen, current) == seen

\* seen_ids.add(obj_id)
MarkSeen(seen, current) == seen \cup {current}

\* An exhausted iterator that is left on the stack.
TraversePopForgotten ==
    /\ pc = "run"
    /\ stack # <<>>
    /\ Top(stack) = <<>>
    /\ UNCHANGED vars

\* _traverse, one turn of the loop: the top iterator is exhausted.
TraversePop ==
    /\ pc = "run"
    /\ stack # <<>>
    /\ Top(stack) = <<>>
    /\ stack' = Pop(stack)
    /\ UNCHANGED <<heap, root, pc, args, seen_ids, visited, out, res>>

\* _traverse, one turn of the loop: the next child was seen before.
TraverseSkip ==
    /\ pc = "run"
    /\ stack # <<>>
    /\ Top(stack) # <<>>
    /\ AlreadySeen(heap, seen_ids, Head(Top(stack)))
    /\ stack' = [stack EXCEPT ![Len(stack)] = Tail(@)]
    /\ UNCHANGED <<heap, root, pc, args, seen_ids, visited, out, res>>

\* The stack after the iterator `it` replaced the top one and the children of
\* `current` were pushed (nothing is pushed for None).
PushChildren(s, it, children) ==
    LET s2 == [s EXCEPT ![Len(s)] = it]
    IN IF children = None THEN s2 ELSE Append(s2, children)

\* _traverse, one turn of the loop: a new object is marked, yielded and its
\* children are pushed.
TraverseVisit ==
    /\ pc = "run"
    /\ stack # <<>>
    /\ Top(stack) # <<>>
    /\ LET current == Head(Top(stack))
       IN /\ ~AlreadySeen(heap, seen_ids, current)
          /\ seen_ids' = MarkSeen(seen_ids, current)
          /\ visited' = Append(visited, current)
          /\ out' = IF Yields(heap, args, current) THEN Append(out, current)
                    ELSE out
          /\ stack' = PushChildren(stack, Tail(Top(stack)),
                                   get_children_fn(heap, args, current))
    /\ UNCHANGED <<heap, root, pc, args, res>>

\* _traverse: the stack is empty, the generator is exhausted.
TraverseExhausted ==
    /\ pc = "run"
    /\ stack = <<>>
    /\ pc' = "done"
    /\ UNCHANGED <<heap, root, args, stack, seen_ids, visited, out, res>>

\* Input graphs: any graph of NCont lists, dicts and custom objects over the
\* leaves (shared references and cycles included) ...
TravGraphs == Graphs(NCont, {"list", "dict", "obj"})

\* ... and a list of lists of leaves: [[x, y], [x, y]].
NestedLists ==
    LET a == NLeaf + 1
        b == NLeaf + 2
    IN {l \o <<Obj("list", 0, <<>>, x), Obj("list", 0, <<>>, y),
               Obj("list", 0, <<>>, r)>> :
          l \in LeafHeaps, x \in SeqsUpTo(Leaves, MaxLen),
          y \in SeqsUpTo(Leaves, MaxLen), r \in SeqsUpTo({a, b}, MaxLen)}

\* The root is the last container, or a leaf of a graph of leaves only.
InitTrav ==
    /\ \/ /\ heap \in TravGraphs \cup NestedLists
          /\ root = Len(heap)
       \/ /\ heap \in LeafHeaps
          /\ root \in Leaves
    /\ pc = "idle"
    /\ args = NoArgs
    /\ stack = <<>>
    /\ seen_ids = {}
    /\ visited = <<>>
    /\ out = <<>>
    /\ res = "none"

NextTrav ==
    \/ StartFlatten
    \/ StartFind
    \/ TraversePop
    \/ TraverseSkip
    \/ TraverseVisit
    \/ TraverseExhausted

SpecTrav == InitTrav /\ [][NextTrav]_vars

(***************************************************************************)
(* nested_collections_transformer.py: _ObjectReconstructor and transform.  *)
(*                                                                         *)
(* The reconstruction is a recursive function of the reconstructor's       *)
(* state st: the heap (new objects are appended), seen (self.seen_ids, a   *)
(* map from original id to reconstructed id), any (self.any_replacements), *)
(* calls (the objects transform_fn was applied to, in order), err (the     *)
(* exception that ended the call, or "none") and ret (the returned id).    *)
(* Two more history fields: hits logs every lookup answered from seen (the *)
(* object and the value returned), held the values recorded for an object  *)
(* before its children were rebuilt.                                       *)
(***************************************************************************)
\* The interpreter's limit on nested calls, counted in nested reconstruct
\* calls; deeper than any finite descent over a graph of the bounded size.
RecursionLimit == 6

\* transform_fn: lambda x: x; a function returning a new object (x * 10 for a
\* leaf, copy.copy(x) otherwise); lambda x: [x]; and a function returning the
\* attribute values of x in a new list, list(getattr(x, "__dict__",
\* {}).values()).
TransformFns == {"ident", "fresh", "box", "children"}

\* The transform_fn arguments: the functions, and 5.
TransformFnArgs == TransformFns \cup {"5"}

\* callable(transform_fn)
callable(transform_fn) == transform_fn \in TransformFns

NewId(st) == Len(st.heap) + 1

Alloc(st, rec) == [st EXCEPT !.heap = Append(@, rec)]

\* self.seen_ids[obj_id] = value
SetSeen(st, obj_id, value) == [st EXCEPT !.seen = (obj_id :> value) @@ @]

\* A value recorded for obj_id before the children of the object are rebuilt;
\* held remembers every such pair.
Hold(st, obj_id, value) ==
    [SetSeen(st, obj_id, value) EXCEPT !.held = @ \cup {<<obj_id, value>>}]

Raise(st, e) == [st EXCEPT !.err = e]

\* transformed = self.transform_fn(original)
apply_transform_fn(st, fn, original) ==
    LET called == [st EXCEPT !.calls = Append(@, original)]
    IN IF fn = "ident" THEN [called EXCEPT !.ret = original]
       ELSE IF fn = "fresh"
       THEN [Alloc(called, IF is_atomic_object(st.heap, original)
                           THEN [st.heap[original] EXCEPT !.val = @ * 10]
                           ELSE st.heap[original])
               EXCEPT !.ret = NewId(st)]
       ELSE IF fn = "children"
       THEN [Alloc(called, Obj("list", 0, <<>>,
                               IF is_atomic_object(st.heap, original) THEN <<>>
                               ELSE st.heap[original].items))
               EXCEPT !.ret = NewId(st)]
       ELSE [Alloc(called, Obj("list", 0, <<>>, <<original>>))
               EXCEPT !.ret = NewId(st)]

\* A container guarded by itself while its children are rebuilt, as the
\* immutable containers are.
install_no_placeholder(st, obj_id, rec) ==
    SetSeen(Alloc(st, rec), obj_id, obj_id)

\* A result container that is the original itself: recorded for the original
\* and filled in place.
install_original(st, obj_id, rec) ==
    Hold([st EXCEPT !.heap[obj_id] = rec], obj_id, obj_id)

\* result = []; self.seen_ids[obj_id] = result: the empty result container is
\* recorded before the children are rebuilt.
install_placeholder(st, obj_id, rec) ==
    Hold(Alloc(st, rec), obj_id, NewId(st))

\* Python objects usable as mapping keys (lists and dicts are unhashable).
Hashable(h, i) == h[i].kind \notin {"list", "dict"}

RECURSIVE reconstruct(_, _, _, _)
RECURSIVE reconstruct_iterable_items(_, _, _, _)
RECURSIVE reconstruct_mapping_items(_, _, _, _, _)

\* _reconstruct_iterable_items: [st, changed, new_items]
reconstruct_iterable_items(a, st, items, depth) ==
    IF items = <<>> \/ st.err # "none"
    THEN [st |-> st, changed |-> FALSE, new_items |-> <<>>]
    ELSE LET s1   == reconstruct(a, st, Head(items), depth + 1)
             rest == reconstruct_iterable_items(a, s1, Tail(items), depth)
         IN [st        |-> rest.st,
             changed   |-> (s1.ret # Head(items)) \/ rest.changed,
             new_items |-> <<s1.ret>> \o rest.new_items]

\* _reconstruct_mapping_items: [st, changed, new_keys, new_items]
reconstruct_mapping_items(a, st, keys, items, depth) ==
    IF keys = <<>> \/ st.err # "none"
    THEN [st |-> st, changed |-> FALSE, new_keys |-> <<>>, new_items |-> <<>>]
    ELSE LET sk   == reconstruct(a, st, Head(keys), depth + 1)
             sv   == reconstruct(a, sk, Head(items), depth + 1)
             rest == reconstruct_mapping_items(a, sv, Tail(keys), Tail(items),
                                               depth)
         IN [st        |-> rest.st,
             changed   |-> \/ sk.ret # Head(keys)
                           \/ sv.ret # Head(items)
                           \/ rest.changed,
             new_keys  |-> <<sk.ret>> \o rest.new_keys,
             new_items |-> <<sv.ret>> \o rest.new_items]

\* _reconstruct_object_attributes
reconstruct_object_attributes(a, st, obj_to_process, depth) ==
    IF is_atomic_object(st.heap, obj_to_process)
    THEN [st EXCEPT !.ret = obj_to_process]
    ELSE IF st.heap[obj_to_process].kind = "obj"     \* has a __dict__
    THEN LET r == reconstruct_iterable_items(
                      a, st, st.heap[obj_to_process].items, depth)
         IN IF r.st.err # "none" THEN r.st
            ELSE IF ~r.changed THEN [r.st EXCEPT !.ret = obj_to_process]
            ELSE \* new_obj = object.__new__(type(obj)); setattr(...)
                 [Alloc(r.st, Obj("obj", 0, <<>>, r.new_items))
                    EXCEPT !.ret = NewId(r.st)]
    ELSE [st EXCEPT !.ret = obj_to_process]

\* _reconstruct_target_type
reconstruct_target_type(a, st, original, depth) ==
    LET marked      == [Hold(st, original, original) EXCEPT !.any = TRUE]
        transformed == apply_transform_fn(marked, a.transform_fn, original)
        rebuilt     == IF a.deep_transformation
                       THEN reconstruct_object_attributes(
                                a, transformed, transformed.ret, depth)
                       ELSE transformed
    IN IF rebuilt.err # "none" THEN rebuilt
       ELSE SetSeen(rebuilt, original, rebuilt.ret)

\* _reconstruct_standard_mapping
reconstruct_standard_mapping(a, st, original, depth) ==
    LET held == install_placeholder(st, original, Obj("dict", 0, <<>>, <<>>))
        result == NewId(st)
        r == reconstruct_mapping_items(a, held, st.heap[original].keys,
                                       st.heap[original].items, depth)
    IN IF r.st.err # "none" THEN r.st
       ELSE IF ~r.changed
       THEN [SetSeen(r.st, original, original) EXCEPT !.ret = original]
       ELSE IF \E k \in Range(r.new_keys) : ~Hashable(r.st.heap, k)
       THEN Raise(r.st, "TypeError")        \* result[k] = v: unhashable key
       ELSE [r.st EXCEPT !.heap[result].keys = r.new_keys,
                         !.heap[result].items = r.new_items,
                         !.ret = result]

\* _reconstruct_standard_iterable
reconstruct_standard_iterable(a, st, original, depth) ==
    IF st.heap[original].kind = "list"
    THEN LET held == install_placeholder(st, original,
                                         Obj("list", 0, <<>>, <<>>))
             result == NewId(st)
             r == reconstruct_iterable_items(a, held, st.heap[original].items,
                                             depth)
         IN IF r.st.err # "none" THEN r.st
            ELSE IF ~r.changed
            THEN [SetSeen(r.st, original, original) EXCEPT !.ret = original]
            ELSE [r.st EXCEPT !.heap[result].items = r.new_items,
                              !.ret = result]
    ELSE LET held == Hold(st, original, original)
             r == reconstruct_iterable_items(a, held, st.heap[original].items,
                                             depth)
         IN IF r.st.err # "none" THEN r.st
            ELSE IF ~r.changed THEN [r.st EXCEPT !.ret = original]
            ELSE \* _safe_recreate_container(type(original), new_items)
                 [SetSeen(Alloc(r.st, Obj(st.heap[original].kind, 0, <<>>,
                                          r.new_items)),
                          original, NewId(r.st))
                    EXCEPT !.ret = NewId(r.st)]

\* _reconstruct_custom_object
reconstruct_custom_object(a, st, original, depth) ==
    LET r == reconstruct_object_attributes(a, st, original, depth)
    IN IF r.err # "none" THEN r
       ELSE SetSeen(r, original, r.ret)

\* _ObjectReconstructor.reconstruct
reconstruct(a, st, original, depth) ==
    IF st.err # "none" THEN st
    ELSE IF depth > RecursionLimit THEN Raise(st, "RecursionError")
    ELSE IF original \in DOMAIN st.seen
    THEN [st EXCEPT !.ret = st.seen[original],
                    !.hits = Append(@, [obj |-> original,
                                        ret |-> st.seen[original]])]
    ELSE IF IsInstance(st.heap, original, a.classinfo)
    THEN reconstruct_target_type(a, st, original, depth)
    ELSE IF is_atomic_object(st.heap, original)
    THEN [SetSeen(st, original, original) EXCEPT !.ret = original]
    ELSE IF is_standard_mapping(st.heap, original)
    THEN reconstruct_standard_mapping(a, st, original, depth)
    ELSE IF is_standard_iterable(st.heap, original)
    THEN reconstruct_standard_iterable(a, st, original, depth)
    ELSE reconstruct_custom_object(a, st, original, depth)

\* _ObjectReconstructor.__init__
NewReconstructor(h) ==
    [heap |-> h, seen |-> <<>>, any |-> FALSE, calls |-> <<>>,
     hits |-> <<>>, held |-> {}, err |-> "none", ret |-> 0]

\* transform_instances_inside_composite_object: the reconstructor's final
\* state, ret being the value returned to the caller.
transform_instances_inside_composite_object(h, obj, a) ==
    LET st == reconstruct(a, NewReconstructor(h), obj, 1)
    IN IF ~is_valid_classinfo(a.classinfo)
       THEN Raise(NewReconstructor(h), "TypeError")
       ELSE IF ~callable(a.transform_fn)
       THEN Raise(NewReconstructor(h), "TypeError")
       ELSE IF st.err # "none" THEN st
       ELSE [st EXCEPT !.ret = IF st.any THEN st.ret ELSE obj]

\* One call of transform on the root.
Transform ==
    /\ pc = "idle"
    /\ \E c \in ClassInfoArgs, f \in TransformFnArgs, d \in BOOLEAN :
          /\ args' = [op |-> "transform", classinfo |-> c,
                      transform_fn |-> f, deep_transformation |-> d]
          /\ res' = transform_instances_inside_composite_object(heap, root, args')
    /\ pc' = IF res'.err = "none" THEN "done" ELSE "error"
    /\ UNCHANGED <<heap, root, stack, seen_ids, visited, out>>

\* Input graphs of transform: lists, tuples, dicts and custom objects.
TransformGraphs ==
    {h \in Graphs(NCont, {"list", "tuple", "dict", "obj"}) : Constructible(h)}

InitTransform ==
    /\ heap \in TransformGraphs
    /\ root = Len(heap)
    /\ pc = "idle"
    /\ args = NoArgs
    /\ stack = <<>>
    /\ seen_ids = {}
    /\ visited = <<>>
    /\ out = <<>>
    /\ res = "none"

NextTransform == Transform

SpecTransform == InitTransform /\ [][NextTransform]_vars

\* The caller pulls the generator until it is exhausted.
(***************************************************************************)
(* json_processor.py: _to_serializable_dict, dumpjs.                       *)
(***************************************************************************)
\* isinstance(x, (int, float, bool, str, type(None)))
JsonPrimitiveKinds == {"int", "str", "none"}

\* _UNSUPPORTED_TYPES: modules, functions, classes, code objects
UnsupportedKinds == {"func"}

\* "params": an object with get_params; "obj": a plain object with a __dict__.
CustomKinds == {"params", "obj"}

\* isinstance(x, Enum): a member of an Enum class, val standing for its name.
EnumKinds == {"enum"}

\* A node of a JSON-compatible structure: k is its JSON type, n a number or
\* the text of a str, s a class or module name, ks the keys of an object and
\* xs the elements of an array or the values of an object.
J(k, n, s, ks, xs) == [k |-> k, n |-> n, s |-> s, ks |-> ks, xs |-> xs]

Jnull == J("null", 0, "", <<>>, <<>>)
Jnum(v) == J("number", v, "", <<>>, <<>>)
Jstr(v) == J("string", v, "", <<>>, <<>>)
Jname(c) == J("string", 0, c, <<>>, <<>>)
Jarr(xs) == J("array", 0, "", <<>>, xs)
Jobj(ks, xs) == J("object", 0, "", ks, xs)

\* _Markers
Markers_DICT == <<"..dict..", 0>>
Markers_TUPLE == <<"..tuple..", 0>>
Markers_SET == <<"..set..", 0>>
Markers_CLASS == <<"..class..", 0>>
Markers_MODULE == <<"..module..", 0>>
Markers_PARAMS == <<"..params..", 0>>
Markers_STATE == <<"..state..", 0>>
Markers_ENUM == <<"..enum..", 0>>

\* The name of the p-th attribute / constructor parameter of a custom object.
AttrKey(p) == <<"attr", p>>

\* A dict key as it stands in a Python dict: a primitive by its type and
\* value, any other hashable object by its identity.
KeyOf(h, i) ==
    IF h[i].kind \in JsonPrimitiveKinds THEN <<h[i].kind, h[i].val>>
    ELSE <<"object", i>>

Ok(js) == [err |-> "none", js |-> js]
Err(e) == [err |-> e, js |-> Jnull]

Min(S) == CHOOSE x \in S : \A y \in S : x <= y
Max(S) == CHOOSE x \in S : \A y \in S : x >= y

\* The outcome of evaluating a comprehension over rs in order: the first
\* exception raised, or the values.
Collect(rs) ==
    LET bad == {i \in DOMAIN rs : rs[i].err # "none"}
    IN [err |-> IF bad = {} THEN "none" ELSE rs[Min(bad)].err,
        xs  |-> [i \in DOMAIN rs |-> rs[i].js]]

\* if obj_id in seen
CyclicReference(obj_id, seen) == obj_id \in seen

\* The back reference written out as null, nothing raised.
CyclicWrittenAsNull == Ok(Jnull)

\* raise RecursionError("Cyclic reference detected ...")
RaiseCyclic == Err("RecursionError")

\* A record of class and state that leaves the module name out.
process_state_without_module(state_js, cls, marker) ==
    Jobj(<<Markers_CLASS, marker>>, <<Jname(cls), state_js>>)

\* _process_state: class, module and the serialized state under the marker.
process_state(state_js, cls, marker) ==
    Jobj(<<Markers_CLASS, Markers_MODULE, marker>>,
         <<Jname(cls), Jname("__main__"), state_js>>)

\* x.__getstate__() of a plain object: its __dict__; None when the __dict__
\* is empty and the interpreter supplies object.__getstate__ (Python 3.11 on;
\* before that the hasattr(x, "__dict__") branch passes the __dict__).
getstate_is_None(h, x, builtin_getstate) ==
    builtin_getstate /\ h[x].items = <<>>

\* Every identity a subtree added stays in seen after the subtree is done.
seen_never_discarded(h, c) ==
    {i \in Reach(h, c) : h[i].kind \notin JsonPrimitiveKinds}

\* finally: seen.discard(obj_id).  What the finished subtree of c has left in
\* the seen set its later siblings are serialized with: nothing.
seen_after_subtree(h, c) == {}

RECURSIVE to_serializable_dict(_, _, _, _)
to_serializable_dict(h, x, seen, builtin_getstate) ==
    IF h[x].kind \in JsonPrimitiveKinds
    THEN Ok(IF h[x].kind = "int" THEN Jnum(h[x].val)
            ELSE IF h[x].kind = "str" THEN Jstr(h[x].val)
            ELSE Jnull)
    ELSE IF h[x].kind \in UnsupportedKinds THEN Err("TypeError")
    ELSE IF CyclicReference(x, seen) THEN RaiseCyclic
    ELSE LET path == seen \cup {x}             \* seen.add(obj_id)
             c == Collect([i \in DOMAIN h[x].items |->
                             to_serializable_dict(h, h[x].items[i],
                                 path \cup UNION {
                                     seen_after_subtree(h, h[x].items[m])
                                     : m \in 1..(i - 1)},
                                 builtin_getstate)])
             attrs == Jobj(<<Markers_DICT>>,
                           <<Jobj([i \in DOMAIN h[x].items |-> AttrKey(i)],
                                  c.xs)>>)
         IN IF c.err # "none" THEN Err(c.err)
            ELSE IF h[x].kind = "params"
            THEN Ok(process_state(attrs, "P", Markers_PARAMS))
            ELSE IF h[x].kind = "list" THEN Ok(Jarr(c.xs))
            ELSE IF h[x].kind = "tuple"
            THEN Ok(Jobj(<<Markers_TUPLE>>, <<Jarr(c.xs)>>))
            ELSE IF h[x].kind = "set"
            THEN Ok(Jobj(<<Markers_SET>>, <<Jarr(c.xs)>>))
            ELSE IF h[x].kind = "dict"
            THEN Ok(Jobj(<<Markers_DICT>>,
                         <<Jobj([i \in DOMAIN h[x].keys |->
                                    KeyOf(h, h[x].keys[i])], c.xs)>>))
            ELSE IF h[x].kind \in EnumKinds
            THEN Ok(Jobj(<<Markers_ENUM, Markers_CLASS, Markers_MODULE>>,
                         <<Jstr(h[x].val), Jname("Color"), Jname("__main__")>>))
            ELSE IF getstate_is_None(h, x, builtin_getstate)
            THEN Ok(process_state(Jnull, "E", Markers_STATE))
            ELSE Ok(process_state(attrs, "E", Markers_STATE))

\* json.dumps: the text, held as its syntax tree.  The keys of an object
\* become strings (an int key its decimal text); a key that is not a str,
\* int, float, bool or None is a TypeError.
RECURSIVE json_dumps(_)
json_dumps(j) ==
    IF j.k \notin {"array", "object"} THEN Ok(j)
    ELSE LET c == Collect([i \in DOMAIN j.xs |-> json_dumps(j.xs[i])])
         IN IF \E i \in DOMAIN j.ks : j.ks[i][1] = "object"
            THEN Err("TypeError")
            ELSE IF c.err # "none" THEN Err(c.err)
            ELSE Ok(J(j.k, 0, "",
                      [i \in DOMAIN j.ks |->
                          IF j.ks[i][1] = "int" THEN <<"str", j.ks[i][2]>>
                          ELSE IF j.ks[i][1] = "none" THEN <<"str_null", 0>>
                          ELSE j.ks[i]],
                      c.xs))

\* json.loads: of the members of an object with one name the last one stays,
\* at the place of the first.
RECURSIVE json_loads(_)
json_loads(j) ==
    IF j.k \notin {"array", "object"} THEN j
    ELSE LET xs == [i \in DOMAIN j.xs |-> json_loads(j.xs[i])]
             first == SelectSeq([i \in DOMAIN j.ks |-> i],
                         LAMBDA i : \A m \in 1..(i - 1) : j.ks[m] # j.ks[i])
         IN IF j.k = "array" THEN Jarr(xs)
            ELSE Jobj([p \in DOMAIN first |-> j.ks[first[p]]],
                      [p \in DOMAIN first |->
                          xs[Max({m \in DOMAIN j.ks :
                                     j.ks[m] = j.ks[first[p]]})]])

\* dumpjs
dumpjs(h, x, builtin_getstate) ==
    LET r == to_serializable_dict(h, x, {}, builtin_getstate)
    IN IF r.err # "none" THEN r ELSE json_dumps(r.js)

(***************************************************************************)
(* json_processor.py: _from_serializable_dict, _recreate_object, loadjs.   *)
(***************************************************************************)
\* A Python value by type and content: k its type, n the value of a
\* primitive, xs the elements of a list or tuple in order, the set of the
\* elements of a set, or the set of the <<key, value>> pairs of a dict and of
\* the <<name, value>> pairs of the attributes of a custom object.
V(k, n, xs) == [k |-> k, n |-> n, xs |-> xs]

Val(v) == [err |-> "none", v |-> v]
Fail(e) == [err |-> e, v |-> V("none", 0, <<>>)]

\* The first exception of a comprehension over rs, or its values.
CollectValues(rs) ==
    LET bad == {i \in DOMAIN rs : rs[i].err # "none"}
    IN [err |-> IF bad = {} THEN "none" ELSE rs[Min(bad)].err,
        xs  |-> [i \in DOMAIN rs |-> rs[i].v]]

HasKey(j, key) == \E i \in DOMAIN j.ks : j.ks[i] = key
Get(j, key) == j.xs[CHOOSE i \in DOMAIN j.ks : j.ks[i] = key]

\* The classes the serialized class names refer to.
ClassOf(name) ==
    IF name = "P" THEN "params"
    ELSE IF name = "Color" THEN "enum"
    ELSE IF name = "S" THEN "slotted"
    ELSE "obj"

\* setattr(obj, k, v) for k, v in state.items() / cls(**params): the object
\* of the class with the attributes of the mapping.
WithAttributes(cls, mapping) == V(cls, 0, mapping.xs)

\* _get_all_slots: the slot names of the hierarchy of cls, parents first.
\* The class S declares NSlots slots and has no __dict__; the other classes
\* declare none.
get_all_slots(cls) ==
    IF cls = "slotted" THEN [i \in 1..NSlots |-> AttrKey(i)] ELSE <<>>

\* setattr(obj, name, value) for each pair, later pairs of a name winning;
\* AttributeError for a name a class without __dict__ has no slot for.
SetAttrs(cls, attrs, pairs) ==
    IF cls = "slotted" /\ \E p \in pairs : p[1] \notin Range(get_all_slots(cls))
    THEN [err |-> "AttributeError", attrs |-> attrs]
    ELSE [err |-> "none",
          attrs |-> {p \in attrs : ~\E q \in pairs : q[1] = p[1]} \cup pairs]

\* The tuple-state branch of _recreate_object: the three formats of a tuple
\* state, the slots applied, then the dict attributes.
apply_tuple_state(cls, state) ==
    LET slots_to_fill == get_all_slots(cls)
        xs == state.xs
        a == xs[1]
        b == xs[2]
        IsSeq(v) == v.k \in {"list", "tuple"}
        format ==
            IF Len(xs) # 2 THEN "slot_values"
            ELSE IF a.k = "dict" /\ b.k = "dict" THEN "dict_and_slot_mapping"
            ELSE IF IsSeq(a) /\ b.k \in {"none", "dict"}
            THEN "slot_values_and_dict"
            ELSE IF a.k = "dict" /\ IsSeq(b) THEN "dict_and_slot_values"
            ELSE IF a.k = "none" /\ b.k = "dict" THEN "dict_only"
            ELSE "slot_values"
        slot_values_seq ==
            IF format = "slot_values_and_dict" THEN a.xs
            ELSE IF format = "dict_and_slot_values" THEN b.xs
            ELSE IF format = "slot_values" THEN xs
            ELSE <<>>                           \* None
        dict_values ==
            IF format \in {"dict_and_slot_mapping", "dict_and_slot_values"}
            THEN a.xs
            ELSE IF format \in {"slot_values_and_dict", "dict_only"}
                    /\ b.k = "dict"
            THEN b.xs
            ELSE {}                             \* None
        slotted ==
            IF format = "dict_and_slot_mapping"
            THEN SetAttrs(cls, {}, b.xs)
            ELSE IF Len(slot_values_seq) > 0
            THEN IF Len(slot_values_seq) # Len(slots_to_fill)
                 THEN [err |-> "TypeError", attrs |-> {}]
                 ELSE [err |-> "none",
                       attrs |-> {<<slots_to_fill[i], slot_values_seq[i]>> :
                                     i \in DOMAIN slots_to_fill}]
            ELSE [err |-> "none", attrs |-> {}]
        done == IF slotted.err # "none" THEN slotted
                ELSE SetAttrs(cls, slotted.attrs, dict_values)
    IN IF done.err # "none" THEN Fail(done.err)
       ELSE Val(V(cls, 0, done.attrs))

RECURSIVE from_serializable_dict(_)

\* _recreate_object
recreate_object(x) ==
    IF ~HasKey(x, Markers_MODULE) \/ ~HasKey(x, Markers_CLASS)
    THEN Fail("TypeError")
    ELSE LET cls == ClassOf(Get(x, Markers_CLASS).s)
         IN IF HasKey(x, Markers_PARAMS)
            THEN LET params == from_serializable_dict(Get(x, Markers_PARAMS))
                 IN IF params.err # "none" THEN params
                    ELSE IF params.v.k # "dict" THEN Fail("TypeError")
                    ELSE IF cls \in EnumKinds
                    THEN Fail("TypeError")  \* EnumType.__call__ needs value
                    ELSE Val(WithAttributes(cls, params.v))
            ELSE IF HasKey(x, Markers_ENUM)
            THEN IF cls \notin EnumKinds THEN Fail("TypeError")
                 ELSE Val(V(cls, Get(x, Markers_ENUM).n, <<>>))  \* cls[member_name]
            ELSE IF HasKey(x, Markers_STATE)
            THEN LET state == from_serializable_dict(Get(x, Markers_STATE))
                 IN IF state.err # "none" THEN state
                    ELSE IF state.v.k = "tuple"
                    THEN apply_tuple_state(cls, state.v)
                    ELSE IF state.v.k # "dict"
                    THEN Fail("AttributeError")      \* state.items()
                    ELSE IF SetAttrs(cls, {}, state.v.xs).err # "none"
                    THEN Fail(SetAttrs(cls, {}, state.v.xs).err)
                    ELSE Val(WithAttributes(cls, state.v))
            ELSE Fail("TypeError")

\* _from_serializable_dict
from_serializable_dict(x) ==
    IF x.k = "null" THEN Val(V("none", 0, <<>>))
    ELSE IF x.k = "number" THEN Val(V("int", x.n, <<>>))
    ELSE IF x.k = "string" THEN Val(V("str", x.n, <<>>))
    ELSE IF x.k = "array"
    THEN LET c == CollectValues([i \in DOMAIN x.xs |->
                                    from_serializable_dict(x.xs[i])])
         IN IF c.err # "none" THEN Fail(c.err) ELSE Val(V("list", 0, c.xs))
    ELSE IF HasKey(x, Markers_TUPLE) \/ HasKey(x, Markers_SET)
    THEN LET val == IF HasKey(x, Markers_TUPLE) THEN Get(x, Markers_TUPLE)
                    ELSE Get(x, Markers_SET)
             c == CollectValues([i \in DOMAIN val.xs |->
                                    from_serializable_dict(val.xs[i])])
         IN IF Len(x.ks) # 1 \/ val.k # "array" THEN Fail("TypeError")
            ELSE IF c.err # "none" THEN Fail(c.err)
            ELSE IF HasKey(x, Markers_TUPLE) THEN Val(V("tuple", 0, c.xs))
            ELSE Val(V("set", 0, Range(c.xs)))
    ELSE IF HasKey(x, Markers_DICT)
    THEN LET val == Get(x, Markers_DICT)
             c == CollectValues([i \in DOMAIN val.xs |->
                                    from_serializable_dict(val.xs[i])])
         IN IF Len(x.ks) # 1 \/ val.k # "object" THEN Fail("TypeError")
            ELSE IF c.err # "none" THEN Fail(c.err)
            ELSE Val(V("dict", 0,
                       {<<val.ks[i], c.xs[i]>> : i \in DOMAIN val.ks}))
    ELSE IF HasKey(x, Markers_MODULE) \/ HasKey(x, Markers_CLASS)
    THEN recreate_object(x)
    ELSE Fail("TypeError")

\* loadjs
loadjs(s) == from_serializable_dict(json_loads(s))

\* The value of the object i of an acyclic graph, by type and content.
RECURSIVE ValueOf(_, _)
ValueOf(h, i) ==
    IF h[i].kind \in JsonPrimitiveKinds \cup UnsupportedKinds \cup EnumKinds
    THEN V(h[i].kind, h[i].val, <<>>)
    ELSE IF h[i].kind \in {"list", "tuple"}
    THEN V(h[i].kind, 0, [k \in DOMAIN h[i].items |-> ValueOf(h, h[i].items[k])])
    ELSE IF h[i].kind = "set"
    THEN V("set", 0, {ValueOf(h, h[i].items[k]) : k \in DOMAIN h[i].items})
    ELSE IF h[i].kind = "dict"
    THEN V("dict", 0, {<<KeyOf(h, h[i].keys[k]), ValueOf(h, h[i].items[k])>> :
                          k \in DOMAIN h[i].keys})
    ELSE V(h[i].kind, 0, {<<AttrKey(k), ValueOf(h, h[i].items[k])>> :
                             k \in DOMAIN h[i].items})

(***************************************************************************)
(* Serialization followed by deserialization of the root.                  *)
(***************************************************************************)
SerOps == {"dumpjs", "_to_serializable_dict"}

\* dumpjs(root) or _to_serializable_dict(root).
Serialize ==
    /\ pc = "idle"
    /\ \E op \in SerOps, g \in BOOLEAN :
          /\ args' = [op |-> op, builtin_getstate |-> g]
          /\ res' = IF op = "dumpjs" THEN dumpjs(heap, root, g)
                    ELSE to_serializable_dict(heap, root, {}, g)
    /\ pc' = IF res'.err = "none" THEN "dumped" ELSE "error"
    /\ UNCHANGED <<heap, root, stack, seen_ids, visited, out>>

\* loadjs / _from_serializable_dict of what Serialize returned.
Deserialize ==
    /\ pc = "dumped"
    /\ res' = IF args.op = "dumpjs" THEN loadjs(res.js)
              ELSE from_serializable_dict(res.js)
    /\ pc' = IF res'.err = "none" THEN "loaded" ELSE "load_error"
    /\ UNCHANGED <<heap, root, args, stack, seen_ids, visited, out>>

\* The leaves of the inputs of serialization: an int, and an int, a str,
\* a None, a function or an Enum member.
SerLeafHeaps ==
    {[i \in Leaves |-> IF i = NLeaf
                       THEN Obj(k, IF k \in {"int", "str", "enum"} THEN 1 ELSE 0,
                                <<>>, <<>>)
                       ELSE Obj("int", 1, <<>>, <<>>)] :
        k \in JsonPrimitiveKinds \cup UnsupportedKinds \cup EnumKinds}

\* The container records of each kind over the objects ids.
SerRecs(kind, ids) ==
    IF kind = "dict"
    THEN UNION {{Obj("dict", 0, ks, vs) : vs \in [1..Len(ks) -> ids]} :
                   ks \in InjSeqsUpTo(ids, MaxDictLen)}
    ELSE IF kind = "set"
    THEN {Obj("set", 0, <<>>, s) : s \in InjSeqsUpTo(Leaves, MaxLen)}
    ELSE {Obj(kind, 0, <<>>, s) : s \in SeqsUpTo(ids, MaxLen)}

\* What Python lets one build: the keys of a dict are hashable and differ,
\* the elements of a set differ, no cycle consists of tuples alone.
SerConstructible(h) ==
    /\ Constructible(h)
    /\ \A i \in DOMAIN h :
          /\ \A k \in Range(h[i].keys) :
                h[k].kind \in JsonPrimitiveKinds \cup UnsupportedKinds
                              \cup CustomKinds
          /\ \A a, b \in DOMAIN h[i].keys :
                a # b => KeyOf(h, h[i].keys[a]) # KeyOf(h, h[i].keys[b])
          /\ h[i].kind = "set" =>
                \A a, b \in DOMAIN h[i].items :
                    a # b => h[h[i].items[a]] # h[h[i].items[b]]

SerGraphs ==
    LET ids  == 1..(NLeaf + NCont)
        recs == UNION {SerRecs(k, ids) :
                          k \in {"list", "tuple", "set", "dict"} \cup CustomKinds}
    IN {h \in {l \o c : l \in SerLeafHeaps, c \in [1..NCont -> recs]} :
           SerConstructible(h)}

InitSer ==
    /\ heap \in SerGraphs
    /\ root = Len(heap)
    /\ pc = "idle"
    /\ args = NoArgs
    /\ stack = <<>>
    /\ seen_ids = {}
    /\ visited = <<>>
    /\ out = <<>>
    /\ res = "none"

NextSer == Serialize \/ Deserialize

SpecSer == InitSer /\ [][NextSer]_vars

(***************************************************************************)
(* Deserialization of records that the serializer did not write.           *)
(***************************************************************************)
LoadOps == {"loadjs", "_from_serializable_dict"}

\* The mapping under a DICT marker.
Jdict(ks, xs) == Jobj(<<Markers_DICT>>, <<Jobj(ks, xs)>>)

\* The keys a record is assembled from: the markers and one plain key.
RecordKeys ==
    <<Markers_TUPLE, Markers_SET, Markers_DICT, Markers_PARAMS, Markers_STATE,
      Markers_ENUM, Markers_MODULE, Markers_CLASS, AttrKey(1)>>

\* What a key of a record is mapped to.
PayloadsOf(key) ==
    IF key \in {Markers_TUPLE, Markers_SET} THEN {Jarr(<<Jnum(1)>>), Jnum(1)}
    ELSE IF key = Markers_DICT THEN {Jobj(<<>>, <<>>), Jarr(<<>>)}
    ELSE IF key = Markers_PARAMS THEN {Jdict(<<>>, <<>>)}
    ELSE IF key = Markers_STATE THEN {Jdict(<<AttrKey(1)>>, <<Jnum(1)>>)}
    ELSE IF key = Markers_ENUM THEN {Jstr(1)}
    ELSE IF key = Markers_MODULE THEN {Jname("__main__")}
    ELSE IF key = Markers_CLASS THEN {Jname("P"), Jname("E"), Jname("Color")}
    ELSE {Jnum(1)}

\* The records over some of the keys from the p-th on, each key mapped to
\* one of its payloads.
RECURSIVE RecordsFrom(_)
RecordsFrom(p) ==
    IF p > Len(RecordKeys) THEN {Jobj(<<>>, <<>>)}
    ELSE LET rest == RecordsFrom(p + 1)
         IN rest \cup {Jobj(<<RecordKeys[p]>> \o r.ks, <<v>> \o r.xs) :
                          v \in PayloadsOf(RecordKeys[p]), r \in rest}

\* The components of a stored tuple state.
StateComponents ==
    {Jnum(1), Jnull, Jarr(<<>>), Jarr(<<Jnum(1)>>), Jarr(<<Jnum(1), Jnum(1)>>),
     Jdict(<<>>, <<>>), Jdict(<<AttrKey(1)>>, <<Jnum(1)>>),
     Jdict(<<AttrKey(NSlots + 1)>>, <<Jnum(1)>>)}

\* STATE records with a tuple state of up to NSlots + 1 components, for the
\* slotted class S and the plain class E.
TupleStateRecords ==
    {Jobj(<<Markers_CLASS, Markers_MODULE, Markers_STATE>>,
          <<Jname(c), Jname("__main__"), Jobj(<<Markers_TUPLE>>, <<Jarr(xs)>>)>>) :
        c \in {"S", "E"}, xs \in SeqsUpTo(StateComponents, NSlots + 1)}

LoadInputs == RecordsFrom(1) \cup TupleStateRecords

\* loadjs(x) or _from_serializable_dict(x).
Load ==
    /\ pc = "idle"
    /\ \E op \in LoadOps :
          /\ args' = [args EXCEPT !.op = op]
          /\ res' = IF op = "loadjs" THEN loadjs(args.x)
                    ELSE from_serializable_dict(args.x)
    /\ pc' = IF res'.err = "none" THEN "loaded" ELSE "load_error"
    /\ UNCHANGED <<heap, root, stack, seen_ids, visited, out>>

InitLoad ==
    /\ heap = <<>>
    /\ root = 0
    /\ pc = "idle"
    /\ args \in {[op |-> "none", x |-> x] : x \in LoadInputs}
    /\ stack = <<>>
    /\ seen_ids = {}
    /\ visited = <<>>
    /\ out = <<>>
    /\ res = "none"

NextLoad == Load

SpecLoad == InitLoad /\ [][NextLoad]_vars

(***************************************************************************)
(* json_processor.py: update_jsparams and access_jsparams.                 *)
(***************************************************************************)
\* pick: the mapping under the DICT marker of a block, if there is one.
HasPick(block) ==
    /\ block.k = "object"
    /\ HasKey(block, Markers_DICT)
    /\ Get(block, Markers_DICT).k = "object"

\* _extract_params_dict: where the parameter mapping of the container lies,
\* under the PARAMS wrapper or in the container itself; KeyError otherwise.
extract_params_dict(container) ==
    IF HasKey(container, Markers_PARAMS)
    THEN IF HasPick(Get(container, Markers_PARAMS))
         THEN [err |-> "none", at |-> "params",
               dict |-> Get(Get(container, Markers_PARAMS), Markers_DICT)]
         ELSE [err |-> "KeyError", at |-> "none", dict |-> Jnull]
    ELSE IF HasPick(container)
    THEN [err |-> "none", at |-> "container",
          dict |-> Get(container, Markers_DICT)]
    ELSE [err |-> "KeyError", at |-> "none", dict |-> Jnull]

\* d[key] = x on a JSON object: in place when the key is there, else appended.
SetItem(d, key, x) ==
    IF HasKey(d, key)
    THEN Jobj(d.ks, [i \in DOMAIN d.xs |-> IF d.ks[i] = key THEN x ELSE d.xs[i]])
    ELSE Jobj(Append(d.ks, key), Append(d.xs, x))

\* The place of a key in the order of Python strs: the markers ("..class..",
\* "..dict..", ...) by their text, before the names of attributes.
KeyRank(key) ==
    IF key = Markers_CLASS THEN 1
    ELSE IF key = Markers_DICT THEN 2
    ELSE IF key = Markers_ENUM THEN 3
    ELSE IF key = Markers_MODULE THEN 4
    ELSE IF key = Markers_PARAMS THEN 5
    ELSE IF key = Markers_SET THEN 6
    ELSE IF key = Markers_STATE THEN 7
    ELSE IF key = Markers_TUPLE THEN 8
    ELSE 9 + key[2]

\* sorted(d.keys()), as the positions of the keys in d.
RECURSIVE SortedPositions(_, _)
SortedPositions(ks, S) ==
    IF S = {} THEN <<>>
    ELSE LET m == CHOOSE i \in S : \A j \in S : KeyRank(ks[i]) <= KeyRank(ks[j])
         IN <<m>> \o SortedPositions(ks, S \ {m})

\* sort_dict_by_keys: the entries of d in the order of the sorted keys.
sort_dict_by_keys(d) ==
    LET order == SortedPositions(d.ks, DOMAIN d.ks)
    IN Jobj([p \in DOMAIN order |-> d.ks[order[p]]],
            [p \in DOMAIN order |-> d.xs[order[p]]])

\* update_jsparams(jsparams, k=v), v being the object v of the heap h.
update_jsparams(h, jsparams, k, v, builtin_getstate) ==
    LET params == json_loads(jsparams)
        target == extract_params_dict(params)
        value  == to_serializable_dict(h, v, {}, builtin_getstate)
        target_dict == SetItem(target.dict, k, value.js)
        updated ==
            IF target.at = "params"
            THEN SetItem(params, Markers_PARAMS,
                         SetItem(Get(params, Markers_PARAMS), Markers_DICT,
                                 target_dict))
            ELSE SetItem(params, Markers_DICT, target_dict)
    IN IF params.k # "object" THEN Err("KeyError")
       ELSE IF target.err # "none" THEN Err(target.err)
       ELSE IF value.err # "none" THEN Err(value.err)
       ELSE json_dumps(sort_dict_by_keys(updated))

\* access_jsparams(jsparams, name)
access_jsparams(jsparams, name) ==
    LET params == json_loads(jsparams)
        source == extract_params_dict(params)
        value  == from_serializable_dict(Get(source.dict, name))
    IN IF params.k # "object" THEN Fail("KeyError")
       ELSE IF source.err # "none" THEN Fail(source.err)
       ELSE IF ~HasKey(source.dict, name) THEN Fail("KeyError")
       ELSE IF value.err # "none" THEN value
       ELSE Val(V("dict", 0, {<<name, value.v>>}))

\* The names of parameters: one the blobs hold, and one they do not.
ParamNames == {AttrKey(1), AttrKey(3)}

\* The serialized blobs: what dumpjs writes for an object with get_params,
\* the same with its entries in another order, a bare DICT mapping, and
\* blobs without a parameter mapping (a STATE record, a PARAMS wrapper
\* without DICT, a DICT marker on an array, an array).
Blobs ==
    LET pdict == Jdict(<<AttrKey(1), AttrKey(2)>>, <<Jnum(1), Jstr(1)>>)
    IN {Jobj(<<Markers_CLASS, Markers_MODULE, Markers_PARAMS>>,
             <<Jname("P"), Jname("__main__"), pdict>>),
        Jobj(<<Markers_PARAMS, Markers_MODULE, Markers_CLASS>>,
             <<pdict, Jname("__main__"), Jname("P")>>),
        pdict,
        Jobj(<<Markers_CLASS, Markers_MODULE, Markers_STATE>>,
             <<Jname("E"), Jname("__main__"), pdict>>),
        Jobj(<<Markers_CLASS, Markers_MODULE, Markers_PARAMS>>,
             <<Jname("P"), Jname("__main__"), Jarr(<<Jnum(1)>>)>>),
        Jobj(<<Markers_DICT>>, <<Jarr(<<Jnum(1)>>)>>),
        Jarr(<<Jnum(1)>>)}

\* The new values of a parameter: the graphs of one container over the
\* leaves, and the last leaf by itself.
ParamValueGraphs ==
    LET ids  == 1..(NLeaf + 1)
        recs == UNION {SerRecs(k, ids) :
                          k \in {"list", "tuple", "set", "dict"} \cup CustomKinds}
    IN {h \in {l \o <<c>> : l \in SerLeafHeaps, c \in recs} :
           SerConstructible(h)}

\* update_jsparams(blob, k=root)
Update ==
    /\ pc = "idle"
    /\ \E k \in ParamNames, g \in BOOLEAN :
          /\ args' = [args EXCEPT !.op = "update_jsparams", !.k = k,
                                  !.builtin_getstate = g]
          /\ res' = update_jsparams(heap, args.blob, k, root, g)
    /\ pc' = IF res'.err = "none" THEN "updated" ELSE "error"
    /\ UNCHANGED <<heap, root, stack, seen_ids, visited, out>>

\* access_jsparams(jsparams, name), jsparams being the blob or what
\* update_jsparams returned.
Access ==
    /\ pc \in {"idle", "updated"}
    /\ \E name \in ParamNames :
          /\ args' = [args EXCEPT !.op = "access_jsparams", !.name = name,
                         !.jsparams = IF pc = "idle" THEN args.blob ELSE res.js,
                         !.updated = (pc = "updated")]
          /\ res' = access_jsparams(args'.jsparams, name)
    /\ pc' = IF res'.err = "none" THEN "accessed" ELSE "access_error"
    /\ UNCHANGED <<heap, root, stack, seen_ids, visited, out>>

InitParams ==
    /\ heap \in ParamValueGraphs
    /\ root \in {NLeaf, Len(heap)}
    /\ pc = "idle"
    /\ args \in {[op |-> "none", blob |-> b, k |-> AttrKey(1),
                  builtin_getstate |-> TRUE, name |-> AttrKey(1),
                  jsparams |-> Jnull, updated |-> FALSE] : b \in Blobs}
    /\ stack = <<>>
    /\ seen_ids = {}
    /\ visited = <<>>
    /\ out = <<>>
    /\ res = "none"

NextParams == Update \/ Access

SpecParams == InitParams /\ [][NextParams]_vars

(***************************************************************************)
(* guarded_init_metaclass.py: GuardedInitMeta.__call__ and the wrapped     *)
(* __setstate__, step by step.  res is the instance, out the log of the    *)
(* calls of user code (hooks, original __setstate__) with the value of     *)
(* _init_finished at the call.                                             *)
(***************************************************************************)
MaxInitWrites == 2      \* assignments and reads one __init__ makes
MaxReinits == 1         \* constructions that meet an instance made before

FlagValues == {"unset", "False", "True"}

\* How a hook is defined in the class: not at all, as a method that
\* returns, as a method that raises, or as something that is not callable.
HookKinds == {"none", "returns", "raises", "not_callable"}

\* An object as cls.__new__ leaves it.
NewInstance(is_instance) ==
    [init_finished |-> "unset", attrs |-> {}, err |-> "none",
     is_instance |-> is_instance, init_wrote_flag |-> FALSE, writes |-> 0,
     identity_key |-> "unset", reinits |-> 0]

\* The dict part and the slots part of a pickle state: None, or a mapping
\* with or without an _init_finished entry.
NoPart == [present |-> FALSE, flag |-> "unset", attrs |-> {}]
DictParts ==
    {NoPart} \cup {[present |-> TRUE, flag |-> f, attrs |-> {"a"}] :
                      f \in FlagValues}
SlotsParts ==
    {NoPart} \cup {[present |-> TRUE, flag |-> f, attrs |-> {"b"}] :
                      f \in {"unset", "True"}}

\* The states passed to __setstate__: None, a dict, a 2-tuple of (None or
\* dict, None or dict), a 2-tuple whose second component is something else,
\* and any other object.
PickleStates ==
    {[form |-> "None", dict |-> NoPart, slots |-> NoPart]}
    \cup {[form |-> "dict", dict |-> d, slots |-> NoPart] :
             d \in DictParts \ {NoPart}}
    \cup {[form |-> "tuple", dict |-> d, slots |-> s] :
             d \in DictParts, s \in SlotsParts}
    \cup {[form |-> "tuple_other", dict |-> d, slots |-> NoPart] :
             d \in DictParts}
    \cup {[form |-> "other", dict |-> NoPart, slots |-> NoPart]}

\* _parse_pickle_state
parse_pickle_state(state) ==
    IF state.form \in {"None", "dict", "tuple"}
    THEN [err |-> "none", dict |-> state.dict, slots |-> state.slots]
    ELSE [err |-> "RuntimeError", dict |-> NoPart, slots |-> NoPart]

\* A validation that lets every state through.
state_never_validated(state) == "none"

\* _validate_pickle_state_integrity: the exception raised, if any.
validate_pickle_state_integrity(state) ==
    LET parsed == parse_pickle_state(state)
    IN IF parsed.err # "none" THEN parsed.err
       ELSE IF parsed.dict.present /\ parsed.dict.flag = "True"
       THEN "RuntimeError"
       ELSE "none"

\* instance.__dict__.update(part) / setattr(instance, key, value) for the
\* entries of a part.
RestorePart(instance, part) ==
    IF ~part.present THEN instance
    ELSE [instance EXCEPT
             !.attrs = @ \cup part.attrs,
             !.init_finished = IF part.flag = "unset" THEN @ ELSE part.flag]

\* The flag left as __init__ or the restoration left it.
init_never_finished(instance) == instance

\* instance._init_finished = True
finish_init(instance) == [instance EXCEPT !.init_finished = "True"]

Log(ev) == Append(out, [ev |-> ev, flag |-> res.init_finished])

Raised(e) == [res EXCEPT !.err = e]

\* cls(*args): _raise_if_dataclass, then cls.__new__.
CallNew ==
    /\ pc = "idle"
    /\ \E dc \in BOOLEAN, inst \in BOOLEAN, hook \in HookKinds :
          /\ args' = [op |-> "__call__", is_dataclass |-> dc,
                      post_init |-> hook]
          /\ res' = IF dc THEN [NewInstance(inst) EXCEPT !.err = "TypeError"]
                    ELSE NewInstance(inst)
          /\ pc' = IF dc THEN "raised"
                   ELSE IF ~inst THEN "returned"  \* not an instance of cls
                   ELSE "new_done"
    /\ UNCHANGED <<heap, root, stack, seen_ids, visited, out>>

\* instance._init_finished = False, and __init__ is entered.
InjectFalse ==
    /\ pc = "new_done"
    /\ res' = [res EXCEPT !.init_finished = "False"]
    /\ pc' = "in_init"
    /\ UNCHANGED <<heap, root, args, stack, seen_ids, visited, out>>

\* __init__ assigns an attribute.
InitWritesAttr ==
    /\ pc = "in_init"
    /\ res.writes < MaxInitWrites
    /\ res' = [res EXCEPT !.attrs = @ \cup {"a"}, !.writes = @ + 1]
    /\ UNCHANGED <<heap, root, pc, args, stack, seen_ids, visited, out>>

\* __init__ assigns _init_finished itself, against the contract.
InitWritesFlag ==
    /\ pc = "in_init"
    /\ res.writes < MaxInitWrites
    /\ \E v \in {"False", "True"} :
          res' = [res EXCEPT !.init_finished = v, !.init_wrote_flag = TRUE,
                             !.writes = @ + 1]
    /\ UNCHANGED <<heap, root, pc, args, stack, seen_ids, visited, out>>

\* __init__ raises.
InitRaises ==
    /\ pc = "in_init"
    /\ res' = Raised("Exception")
    /\ pc' = "raised"
    /\ UNCHANGED <<heap, root, args, stack, seen_ids, visited, out>>

\* __init__ returns.
InitReturns ==
    /\ pc = "in_init"
    /\ pc' = "init_returned"
    /\ UNCHANGED <<heap, root, args, stack, seen_ids, visited, out, res>>

\* The check that __init__ left the flag false, then the flag set.
FinishInit ==
    /\ pc = "init_returned"
    /\ IF res.init_finished = "True"
       THEN /\ res' = Raised("RuntimeError")
            /\ pc' = "raised"
       ELSE /\ res' = finish_init(res)
            /\ pc' = "finished"
    /\ UNCHANGED <<heap, root, args, stack, seen_ids, visited, out>>

\* __post_init__, if the class has one, and the return of the instance.
PostInit ==
    /\ pc = "finished"
    /\ out' = IF args.post_init \in {"returns", "raises"}
              THEN Log("__post_init__") ELSE out
    /\ res' = IF args.post_init = "not_callable" THEN Raised("TypeError")
              ELSE IF args.post_init = "raises" THEN Raised("Exception")
              ELSE res
    /\ pc' = IF res'.err = "none" THEN "returned" ELSE "raised"
    /\ UNCHANGED <<heap, root, args, stack, seen_ids, visited>>

\* instance.__setstate__(state) on an object fresh from cls.__new__ (as
\* pickle calls it) or on a constructed instance; self is an instance of
\* the class the wrapper was made for, or the wrapper is called on a
\* foreign object.
CallSetstate ==
    /\ \/ pc = "idle" /\ res = NewInstance(TRUE)
       \/ pc = "returned" /\ res.is_instance
    /\ \E state \in PickleStates, original \in BOOLEAN, has_dict \in BOOLEAN,
          hook \in HookKinds, foreign \in BOOLEAN :
          args' = [op |-> "__setstate__", state |-> state,
                   original_setstate |-> original, has_dict |-> has_dict,
                   post_setstate |-> hook, isinstance_self_cls |-> ~foreign,
                   before |-> res, logged |-> Len(out)]
    /\ pc' = "validating"
    /\ UNCHANGED <<heap, root, stack, seen_ids, visited, out, res>>

\* _validate_pickle_state_integrity(state, ...)
Validate ==
    /\ pc = "validating"
    /\ LET e == validate_pickle_state_integrity(args.state)
       IN /\ res' = IF e = "none" THEN res ELSE Raised(e)
          /\ pc' = IF e = "none" THEN "restoring" ELSE "raised"
    /\ UNCHANGED <<heap, root, args, stack, seen_ids, visited, out>>

\* original_setstate(self, state), or the default restoration of the dict
\* part and then the slots part.
Restore ==
    /\ pc = "restoring"
    /\ LET parsed == parse_pickle_state(args.state)
       IN IF args.original_setstate
          THEN /\ out' = Log("original_setstate")
               /\ res' = RestorePart(RestorePart(res, parsed.dict), parsed.slots)
               /\ pc' = "restored"
          ELSE IF parsed.dict.present /\ ~args.has_dict
          THEN /\ res' = Raised("RuntimeError")   \* _restore_dict_state
               /\ pc' = "raised"
               /\ UNCHANGED out
          ELSE /\ res' = RestorePart(RestorePart(res, parsed.dict), parsed.slots)
               /\ pc' = "restored"
               /\ UNCHANGED out
    /\ UNCHANGED <<heap, root, args, stack, seen_ids, visited>>

\* if isinstance(self, cls): the flag set and __post_setstate__ invoked.
FinishSetstate ==
    /\ pc = "restored"
    /\ IF ~args.isinstance_self_cls
       THEN /\ pc' = "setstate_returned"
            /\ UNCHANGED <<res, out>>
       ELSE /\ out' = IF args.post_setstate \in {"returns", "raises"}
                      THEN Append(out, [ev |-> "__post_setstate__",
                                        flag |-> finish_init(res).init_finished])
                      ELSE out
            /\ res' = IF args.post_setstate = "not_callable"
                      THEN [finish_init(res) EXCEPT !.err = "TypeError"]
                      ELSE IF args.post_setstate = "raises"
                      THEN [finish_init(res) EXCEPT !.err = "Exception"]
                      ELSE finish_init(res)
            /\ pc' = IF res'.err = "none" THEN "setstate_returned"
                     ELSE "raised"
    /\ UNCHANGED <<heap, root, args, stack, seen_ids, visited>>

InitGuarded ==
    /\ heap = <<>>
    /\ root = 0
    /\ pc = "idle"
    /\ args = [op |-> "none"]
    /\ stack = <<>>
    /\ seen_ids = {}
    /\ visited = <<>>
    /\ out = <<>>
    /\ res = NewInstance(TRUE)

NextGuarded ==
    \/ CallNew
    \/ InjectFalse
    \/ InitWritesAttr
    \/ InitWritesFlag
    \/ InitRaises
    \/ InitReturns
    \/ FinishInit
    \/ PostInit
    \/ CallSetstate
    \/ Validate
    \/ Restore
    \/ FinishSetstate

SpecGuarded == InitGuarded /\ [][NextGuarded]_vars

(***************************************************************************)
(* immutable_mixin.py: the cached identity key of an ImmutableMixin        *)
(* object, read during and after the guarded construction.                 *)
(***************************************************************************)
\* The identity key computed whatever _init_finished is.
identity_key_unguarded(instance) ==
    [err |-> "none", instance |-> [instance EXCEPT !.identity_key = "cached"]]

\* ImmutableMixin.identity_key, a cached_property: the value in the
\* instance's __dict__ if it is there; else the body, which raises
\* RuntimeError unless _init_finished holds, and whose result is cached.
identity_key(instance) ==
    IF instance.identity_key = "cached"
    THEN [err |-> "none", instance |-> instance]
    ELSE IF instance.init_finished = "unset"
    THEN [err |-> "AttributeError", instance |-> instance]
    ELSE IF instance.init_finished # "True"
    THEN [err |-> "RuntimeError", instance |-> instance]
    ELSE [err |-> "none", instance |-> [instance EXCEPT !.identity_key = "cached"]]

\* cls.__new__ returns an instance that an earlier construction returned
\* (an interned instance); __call__ goes on with it.
CallNewExisting ==
    /\ pc = "returned"
    /\ res.is_instance
    /\ res.reinits < MaxReinits
    /\ \E hook \in HookKinds :
          args' = [op |-> "__call__", is_dataclass |-> FALSE,
                   post_init |-> hook]
    /\ res' = [res EXCEPT !.reinits = @ + 1, !.writes = 0,
                          !.init_wrote_flag = FALSE]
    /\ pc' = "new_done"
    /\ UNCHANGED <<heap, root, stack, seen_ids, visited, out>>

\* __init__ calls hash(self) or reads self.identity_key.
InitCallsHash ==
    /\ pc = "in_init"
    /\ res.writes < MaxInitWrites
    /\ res' = [res EXCEPT !.writes = @ + 1]
    /\ pc' = "in_init_hash"
    /\ UNCHANGED <<heap, root, args, stack, seen_ids, visited, out>>

\* hash(instance) or instance.identity_key on a constructed instance.
CallHash ==
    /\ pc = "returned"
    /\ res.is_instance
    /\ pc' = "in_hash"
    /\ UNCHANGED <<heap, root, args, stack, seen_ids, visited, out, res>>

\* __hash__ / identity_key evaluated; an exception inside __init__ ends the
\* construction.
IdentityKey ==
    /\ pc \in {"in_init_hash", "in_hash"}
    /\ LET r == identity_key(res)
       IN IF r.err # "none"
          THEN /\ res' = Raised(r.err)
               /\ pc' = "raised"
               /\ UNCHANGED out
          ELSE /\ res' = r.instance
               /\ pc' = IF pc = "in_init_hash" THEN "in_init" ELSE "returned"
               /\ out' = IF pc = "in_init_hash" THEN Log("identity_key")
                         ELSE out
    /\ UNCHANGED <<heap, root, args, stack, seen_ids, visited>>

NextImmutable ==
    \/ CallNew
    \/ CallNewExisting
    \/ InjectFalse
    \/ InitWritesAttr
    \/ InitWritesFlag
    \/ InitCallsHash
    \/ InitRaises
    \/ InitReturns
    \/ FinishInit
    \/ PostInit
    \/ CallHash
    \/ IdentityKey

SpecImmutable == InitGuarded /\ [][NextImmutable]_vars

(***************************************************************************)
(* CacheablePropertiesMixin (cacheable_properties_mixin.py).  A class is   *)
(* its MRO, held in heap: a sequence of class dictionaries, the class      *)
(* itself first, each mapping an attribute name to "cached_property",      *)
(* "property" or "none" (not defined there).  The instance is res: whether *)
(* it has a __dict__, the __dict__ restricted to AttrNames ("absent" for a *)
(* missing key), and what the last call returned or raised.  Two history   *)
(* variables record what was done to the instance: visited is the set of   *)
(* names whose access returned a value or that _set_cached_properties      *)
(* wrote since the last _invalidate_cache returned, seen_ids the set of    *)
(* names so accessed or written at any time.                               *)
(***************************************************************************)
AttrNames == {"a", "b", "p", "u"}

SetValues == {"v1", "v2"}

NoClassDict == [n \in AttrNames |-> "none"]

ClassDict(cached, plain) ==
    [n \in AttrNames |-> IF n \in cached THEN "cached_property"
                         ELSE IF n \in plain THEN "property" ELSE "none"]

\* Three hierarchies: a subclass adding a cached property, a subclass hiding
\* an inherited cached property behind a plain property, and a subclass
\* turning an inherited plain property into a cached one.
Hierarchies ==
    { <<ClassDict({"b"}, {}), ClassDict({"a"}, {"p"})>>,
      <<ClassDict({}, {"a"}), ClassDict({"a", "b"}, {"p"})>>,
      <<ClassDict({"a"}, {}), ClassDict({"b"}, {"a", "p"})>> }

NamesIn(class_dict) == {n \in AttrNames : class_dict[n] # "none"}

\* The loop over cls.mro() of _get_cached_properties_names_for_class.
RECURSIVE cached_names_from(_, _, _, _)
cached_names_from(mro, i, seen_names, cached_names) ==
    IF i > Len(mro) THEN cached_names
    ELSE cached_names_from(mro, i + 1, seen_names \cup NamesIn(mro[i]),
             cached_names \cup {n \in NamesIn(mro[i]) \ seen_names :
                                   mro[i][n] = "cached_property"})

get_cached_properties_names_for_class(mro) == cached_names_from(mro, 1, {}, {})

\* getattr's lookup along the MRO: the kind of the first definition.
RECURSIVE kind_from(_, _, _)
kind_from(mro, i, name) ==
    IF i > Len(mro) THEN "none"
    ELSE IF mro[i][name] # "none" THEN mro[i][name]
    ELSE kind_from(mro, i + 1, name)

NewObject(has_dict) ==
    [has_dict |-> has_dict, dict |-> [n \in AttrNames |-> "absent"],
     ret |-> "none", err |-> "none"]

Returns(instance, ret) == [instance EXCEPT !.ret = ret, !.err = "none"]

Raises(instance, e) == [instance EXCEPT !.ret = "none", !.err = e]

\* getattr(instance, name); getter_returns tells whether the property's
\* function returns a value or raises.
getattr(mro, instance, name, getter_returns) ==
    LET kind == kind_from(mro, 1, name) IN
    IF kind = "none" THEN Raises(instance, "AttributeError")
    ELSE IF kind = "property"
    THEN IF getter_returns THEN Returns(instance, "computed")
         ELSE Raises(instance, "GetterError")
    ELSE IF ~instance.has_dict THEN Raises(instance, "TypeError")
    ELSE IF instance.dict[name] # "absent"
    THEN Returns(instance, instance.dict[name])
    ELSE IF ~getter_returns THEN Raises(instance, "GetterError")
    ELSE Returns([instance EXCEPT !.dict[name] = "computed"], "computed")

get_cached_property(mro, instance, name) ==
    IF ~instance.has_dict THEN Raises(instance, "TypeError")
    ELSE IF name \notin get_cached_properties_names_for_class(mro)
    THEN Raises(instance, "ValueError")
    ELSE IF instance.dict[name] = "absent" THEN Raises(instance, "KeyError")
    ELSE Returns(instance, instance.dict[name])

get_cached_property_status(mro, instance, name) ==
    IF ~instance.has_dict THEN Raises(instance, "TypeError")
    ELSE IF name \notin get_cached_properties_names_for_class(mro)
    THEN Raises(instance, "ValueError")
    ELSE Returns(instance, IF instance.dict[name] # "absent" THEN "True"
                           ELSE "False")

\* names_values maps every name to the value given for it, "absent" for a
\* name that is not among the keyword arguments.
Provided(names_values) == {n \in AttrNames : names_values[n] # "absent"}

WriteValues(instance, names_values, names) ==
    [instance EXCEPT !.dict = [n \in AttrNames |->
        IF n \in names THEN names_values[n] ELSE instance.dict[n]]]

set_valid_names_first(mro, instance, names_values) ==
    LET cached_names == get_cached_properties_names_for_class(mro)
        written == WriteValues(instance, names_values,
                               Provided(names_values) \cap cached_names)
    IN  IF Provided(names_values) \ cached_names # {}
        THEN Raises(written, "ValueError")
        ELSE Returns(written, "None")

set_cached_properties(mro, instance, names_values) ==
    IF ~instance.has_dict THEN Raises(instance, "TypeError")
    ELSE LET cached_names == get_cached_properties_names_for_class(mro)
             invalid_names == Provided(names_values) \ cached_names
         IN  IF invalid_names # {} THEN Raises(instance, "ValueError")
             ELSE Returns(WriteValues(instance, names_values,
                                      Provided(names_values)), "None")

cache_never_invalidated(mro, instance) == Returns(instance, "None")

invalidate_cache(mro, instance) ==
    IF ~instance.has_dict THEN Raises(instance, "TypeError")
    ELSE LET cached_names == get_cached_properties_names_for_class(mro)
             keys_to_delete == {k \in AttrNames : instance.dict[k] # "absent"
                                                  /\ k \in cached_names}
         IN  Returns([instance EXCEPT !.dict = [n \in AttrNames |->
                        IF n \in keys_to_delete THEN "absent"
                        ELSE instance.dict[n]]], "None")

PcAfter(instance) == IF instance.err = "none" THEN "returned" ELSE "raised"

AccessProperty ==
    /\ \E name \in AttrNames, getter_returns \in BOOLEAN :
          /\ args' = [op |-> "getattr", name |-> name,
                      names_values |-> [n \in AttrNames |-> "absent"]]
          /\ res' = getattr(heap, res, name, getter_returns)
          /\ visited' = IF res'.err = "none" THEN visited \cup {name}
                        ELSE visited
          /\ seen_ids' = IF res'.err = "none" THEN seen_ids \cup {name}
                         ELSE seen_ids
    /\ pc' = PcAfter(res')
    /\ UNCHANGED <<heap, root, stack, out>>

GetCachedProperty ==
    /\ \E name \in AttrNames :
          /\ args' = [op |-> "_get_cached_property", name |-> name,
                      names_values |-> [n \in AttrNames |-> "absent"]]
          /\ res' = get_cached_property(heap, res, name)
    /\ pc' = PcAfter(res')
    /\ UNCHANGED <<heap, root, stack, seen_ids, visited, out>>

GetCachedPropertyStatus ==
    /\ \E name \in AttrNames :
          /\ args' = [op |-> "_get_cached_property_status", name |-> name,
                      names_values |-> [n \in AttrNames |-> "absent"]]
          /\ res' = get_cached_property_status(heap, res, name)
    /\ pc' = PcAfter(res')
    /\ UNCHANGED <<heap, root, stack, seen_ids, visited, out>>

SetCachedProperties ==
    /\ \E names_values \in [AttrNames -> SetValues \cup {"absent"}] :
          /\ args' = [op |-> "_set_cached_properties", name |-> "none",
                      names_values |-> names_values]
          /\ res' = set_cached_properties(heap, res, names_values)
          /\ visited' = IF res'.err = "none"
                        THEN visited \cup Provided(names_values)
                        ELSE visited
          /\ seen_ids' = IF res'.err = "none"
                         THEN seen_ids \cup Provided(names_values)
                         ELSE seen_ids
    /\ pc' = PcAfter(res')
    /\ UNCHANGED <<heap, root, stack, out>>

InvalidateCache ==
    /\ args' = [op |-> "_invalidate_cache", name |-> "none",
                names_values |-> [n \in AttrNames |-> "absent"]]
    /\ res' = invalidate_cache(heap, res)
    /\ visited' = IF res'.err = "none" THEN {} ELSE visited
    /\ pc' = PcAfter(res')
    /\ UNCHANGED <<heap, root, stack, seen_ids, out>>

InitCache ==
    /\ heap \in Hierarchies
    /\ root = 0
    /\ pc = "idle"
    /\ args = [op |-> "none", name |-> "none",
               names_values |-> [n \in AttrNames |-> "absent"]]
    /\ stack = <<>>
    /\ seen_ids = {}
    /\ visited = {}
    /\ out = <<>>
    /\ res \in {NewObject(d) : d \in BOOLEAN}

NextCache ==
    \/ AccessProperty
    \/ GetCachedProperty
    \/ GetCachedPropertyStatus
    \/ SetCachedProperties
    \/ InvalidateCache

SpecCache == InitCache /\ [][NextCache]_vars

(***************************************************************************)
(* OutputCapturer (context_managers/output_capturer.py).  heap holds the   *)
(* stream and handler objects: the process's own stdout (1), stderr (2)    *)
(* and root handler (3), then the two _TeeStream objects and the           *)
(* _CaptureHandler that every __enter__ creates; original is the stream a  *)
(* tee forwards to (a one-element sequence) or the handlers a capture      *)
(* handler forwards to, buffer the capturer whose captured_buffer it       *)
(* writes.  res is the mutable state: sys.stdout, sys.stderr,              *)
(* logging.root.handlers, and per capturer its captured_buffer and the     *)
(* callbacks of its _stack.  stack is the sequence of capturers whose with *)
(* block is open, innermost last; pc is "raising" while an exception       *)
(* unwinds.  History variables: out logs every text written with the set   *)
(* of capturers whose block was open, visited keeps the handlers in place  *)
(* before the first enter, seen_ids the capturers entered while open.      *)
(***************************************************************************)
Capturers == {"c1", "c2"}

MaxEnters == 4

MaxWrites == 2

Traceback == 0

BaseObjects ==
    << [kind |-> "stream", original |-> <<>>, buffer |-> "none"],
       [kind |-> "stream", original |-> <<>>, buffer |-> "none"],
       [kind |-> "handler", original |-> <<>>, buffer |-> "none"] >>

TeeStream(original, buffer) ==
    [kind |-> "tee", original |-> <<original>>, buffer |-> buffer]

CaptureHandler(buffer, original_handlers) ==
    [kind |-> "capture_handler", original |-> original_handlers,
     buffer |-> buffer]

Callback(attr, value) == [attr |-> attr, value |-> value]

\* The buffers a write to stream id (or an emit by handler id) reaches, in
\* the order it reaches them: _TeeStream.write writes the original first,
\* _CaptureHandler.emit its own buffer first.
RECURSIVE receivers(_, _)
RECURSIVE receivers_of_all(_, _, _)
receivers_of_all(h, ids, i) ==
    IF i > Len(ids) THEN <<>>
    ELSE receivers(h, ids[i]) \o receivers_of_all(h, ids, i + 1)

receivers(h, id) ==
    IF h[id].kind = "tee" THEN receivers(h, h[id].original[1]) \o <<h[id].buffer>>
    ELSE IF h[id].kind = "capture_handler"
    THEN <<h[id].buffer>> \o receivers_of_all(h, h[id].original, 1)
    ELSE <<>>

RECURSIVE write_all(_, _, _, _)
write_all(buffers, rcv, i, text) ==
    IF i > Len(rcv) THEN buffers
    ELSE write_all([buffers EXCEPT ![rcv[i]] = Append(@, text)], rcv, i + 1,
                   text)

\* print(text), print(text, file=sys.stderr) or logging.warning(text).
write(h, sys, channel, text) ==
    LET rcv == IF channel = "stdout" THEN receivers(h, sys.stdout)
               ELSE IF channel = "stderr" THEN receivers(h, sys.stderr)
               ELSE receivers_of_all(h, sys.handlers, 1)
    IN  [sys EXCEPT !.captured_buffer = write_all(@, rcv, 1, text)]

\* OutputCapturer.__enter__ of capturer c: the three new objects and the
\* state of the interpreter after it.
enter_objects(h, sys, c) ==
    << TeeStream(sys.stdout, c), TeeStream(sys.stderr, c),
       CaptureHandler(c, sys.handlers) >>

enter(h, sys, c) ==
    [sys EXCEPT !.exit_stack[c] = << Callback("stdout", <<sys.stdout>>),
                                     Callback("stderr", <<sys.stderr>>),
                                     Callback("handlers", sys.handlers) >>,
                !.stdout = Len(h) + 1,
                !.stderr = Len(h) + 2,
                !.handlers = <<Len(h) + 3>>]

setattr(sys, cb) ==
    IF cb.attr = "stdout" THEN [sys EXCEPT !.stdout = cb.value[1]]
    ELSE IF cb.attr = "stderr" THEN [sys EXCEPT !.stderr = cb.value[1]]
    ELSE [sys EXCEPT !.handlers = cb.value]

\* ExitStack.__exit__: the callbacks run last registered first, and none is
\* left registered.
RECURSIVE run_callbacks(_, _, _)
run_callbacks(sys, callbacks, i) ==
    IF i = 0 THEN sys
    ELSE run_callbacks(setattr(sys, callbacks[i]), callbacks, i - 1)

\* OutputCapturer.__exit__ of capturer c.
exit(h, sys, c, with_exception) ==
    LET printed == IF with_exception THEN write(h, sys, "stderr", Traceback)
                   ELSE sys
        callbacks == printed.exit_stack[c]
    IN  [run_callbacks(printed, callbacks, Len(callbacks))
            EXCEPT !.exit_stack[c] = <<>>]

Innermost == stack[Len(stack)]

Open == {stack[i] : i \in 1..Len(stack)}

Enter ==
    /\ pc = "running"
    /\ Len(heap) + 3 <= Len(BaseObjects) + 3 * MaxEnters
    /\ \E c \in Capturers :
          /\ args' = [op |-> "__enter__", capturer |-> c]
          /\ heap' = heap \o enter_objects(heap, res, c)
          /\ res' = enter(heap, res, c)
          /\ stack' = Append(stack, c)
          /\ seen_ids' = IF c \in Open THEN seen_ids \cup {c} ELSE seen_ids
    /\ UNCHANGED <<root, pc, visited, out>>

Write ==
    /\ pc = "running"
    /\ Len(out) < MaxWrites
    /\ \E channel \in {"stdout", "stderr", "logging"} :
          /\ args' = [op |-> channel, capturer |-> "none"]
          /\ res' = write(heap, res, channel, Len(out) + 1)
    /\ out' = Append(out, [text |-> Len(out) + 1, open |-> Open])
    /\ UNCHANGED <<heap, root, pc, stack, seen_ids, visited>>

RaiseInside ==
    /\ pc = "running"
    /\ stack # <<>>
    /\ pc' = "raising"
    /\ args' = [op |-> "raise", capturer |-> "none"]
    /\ UNCHANGED <<heap, root, stack, seen_ids, visited, out, res>>

Exit ==
    /\ pc = "running"
    /\ stack # <<>>
    /\ args' = [op |-> "__exit__", capturer |-> Innermost]
    /\ res' = exit(heap, res, Innermost, FALSE)
    /\ stack' = SubSeq(stack, 1, Len(stack) - 1)
    /\ UNCHANGED <<heap, root, pc, seen_ids, visited, out>>

\* The exception leaves the innermost open block; what encloses the block
\* either handles it or lets it leave the next block.
ExitWithException ==
    /\ pc = "raising"
    /\ stack # <<>>
    /\ args' = [op |-> "__exit__", capturer |-> Innermost]
    /\ res' = exit(heap, res, Innermost, TRUE)
    /\ stack' = SubSeq(stack, 1, Len(stack) - 1)
    /\ pc' \in IF Len(stack) > 1 THEN {"raising", "running"} ELSE {"running"}
    /\ UNCHANGED <<heap, root, seen_ids, visited, out>>

InitCapture ==
    /\ heap = BaseObjects
    /\ root = 0
    /\ pc = "running"
    /\ args = [op |-> "none", capturer |-> "none"]
    /\ stack = <<>>
    /\ seen_ids = {}
    /\ visited \in {<<>>, <<3>>}
    /\ out = <<>>
    /\ res = [stdout |-> 1, stderr |-> 2, handlers |-> visited,
              captured_buffer |-> [c \in Capturers |-> <<>>],
              exit_stack |-> [c \in Capturers |-> <<>>]]

NextCapture == Enter \/ Write \/ RaiseInside \/ Exit \/ ExitWithException

SpecCapture == InitCapture /\ [][NextCapture]_vars

(***************************************************************************)
(* _restrict_to_single_thread (single_thread_enforcer_mixin.py), called by *)
(* several threads of one process.  res holds the three module globals     *)
(* (None is 0 for an id, "None" for the name); pc maps each thread to the  *)
(* source line it is about to execute ("idle" outside a call), args to the *)
(* locals of its call.  The function takes no lock, so the threads'        *)
(* statements interleave.  History variables: out logs every call that     *)
(* ended, with the thread and whether it returned or raised; seen_ids      *)
(* holds the threads that started a call while another call was running.   *)
(***************************************************************************)
Threads == {"T1", "T2", "T3"}

MaxCalls == 3

ProcessId == 1

native_id(t) == IF t = "T1" THEN 1 ELSE IF t = "T2" THEN 2 ELSE 3

NoOwner ==
    [owner_thread_native_id |-> 0, owner_thread_name |-> "None",
     owner_process_id |-> 0]

NoLocals ==
    [current_process_id |-> 0, current_thread_native_id |-> 0,
     current_thread_name |-> "None"]

Running == {t \in Threads : pc[t] # "idle"}

Ended(t, outcome) == Append(out, [thread |-> t, outcome |-> outcome])

\* Lines 32-34: the call starts and reads who is calling.
ReadCurrent(t) ==
    /\ pc[t] = "idle"
    /\ Len(out) + Cardinality(Running) < MaxCalls
    /\ args' = [args EXCEPT ![t] =
                   [current_process_id |-> ProcessId,
                    current_thread_native_id |-> native_id(t),
                    current_thread_name |-> t]]
    /\ pc' = [pc EXCEPT ![t] = "36"]
    /\ seen_ids' = IF Running # {} THEN seen_ids \cup {t} ELSE seen_ids
    /\ UNCHANGED <<heap, root, stack, visited, out, res>>

\* Lines 36-39: ownership is dropped when the process is not the owner's.
CheckFork(t) ==
    /\ pc[t] = "36"
    /\ res' = IF /\ res.owner_process_id # 0
                 /\ args[t].current_process_id # res.owner_process_id
              THEN NoOwner ELSE res
    /\ pc' = [pc EXCEPT ![t] = "41"]
    /\ UNCHANGED <<heap, root, args, stack, seen_ids, visited, out>>

\* Line 41.
TestOwnerIsNone(t) ==
    /\ pc[t] = "41"
    /\ pc' = [pc EXCEPT ![t] = IF res.owner_thread_native_id = 0 THEN "42"
                               ELSE "47"]
    /\ UNCHANGED <<heap, root, args, stack, seen_ids, visited, out, res>>

\* Line 42.
StoreOwnerNativeId(t) ==
    /\ pc[t] = "42"
    /\ res' = [res EXCEPT !.owner_thread_native_id =
                              args[t].current_thread_native_id]
    /\ pc' = [pc EXCEPT ![t] = "43"]
    /\ UNCHANGED <<heap, root, args, stack, seen_ids, visited, out>>

\* Line 43.
StoreOwnerName(t) ==
    /\ pc[t] = "43"
    /\ res' = [res EXCEPT !.owner_thread_name = args[t].current_thread_name]
    /\ pc' = [pc EXCEPT ![t] = "44"]
    /\ UNCHANGED <<heap, root, args, stack, seen_ids, visited, out>>

\* Lines 44-45: the last store, and the call returns.
StoreOwnerProcessId(t) ==
    /\ pc[t] = "44"
    /\ res' = [res EXCEPT !.owner_process_id = args[t].current_process_id]
    /\ pc' = [pc EXCEPT ![t] = "idle"]
    /\ out' = Ended(t, "returned")
    /\ UNCHANGED <<heap, root, args, stack, seen_ids, visited>>

\* Lines 47-54: RuntimeError for a thread that is not the owner.
CompareWithOwner(t) ==
    /\ pc[t] = "47"
    /\ out' = Ended(t, IF args[t].current_thread_native_id
                              # res.owner_thread_native_id
                       THEN "RuntimeError" ELSE "returned")
    /\ pc' = [pc EXCEPT ![t] = "idle"]
    /\ UNCHANGED <<heap, root, args, stack, seen_ids, visited, res>>

InitThreads ==
    /\ heap = <<>>
    /\ root = 0
    /\ pc = [t \in Threads |-> "idle"]
    /\ args = [t \in Threads |-> NoLocals]
    /\ stack = <<>>
    /\ seen_ids = {}
    /\ visited = <<>>
    /\ out = <<>>
    /\ res = NoOwner

NextThreads ==
    \E t \in Threads :
        \/ ReadCurrent(t)
        \/ CheckFork(t)
        \/ TestOwnerIsNone(t)
        \/ StoreOwnerNativeId(t)
        \/ StoreOwnerName(t)
        \/ StoreOwnerProcessId(t)
        \/ CompareWithOwner(t)

SpecThreads == InitThreads /\ [][NextThreads]_vars

(***************************************************************************)
(* atomics_detector.py: the registry of atomic types and the memoized      *)
(* is_atomic_type.  res holds the mutable state: registry (the descriptors *)
(* of _indexed_types in the order their keys were first registered; a      *)
(* descriptor is indexed under its module name and under its type name),   *)
(* cache (the memo of is_atomic_type, "none" for a type without an entry), *)
(* modules (sys.modules) and ret (what the last query returned).  History  *)
(* variables: visited is the set of types register_type was called for, by *)
(* type or by (module, name); seen_ids the set of types that is_atomic_type *)
(* has reported atomic.                                                    *)
(***************************************************************************)
MaxRegistered == 3

\* The classes of the program: Grid of the package lib (defined in lib.core,
\* exported by lib), a subclass of it made by the application, Grid of the
\* package other.sql (defined in other.sql.grid), and two classes made by two
\* calls of one factory function (def make(): class C: ...; return C).  Of
\* the types registered when the module is imported (lines 227-327) only the
\* builtins are indexed under a key that a query for these classes looks up
\* ("builtins", for the ancestor object), and none of them is object; the
\* registry starts without them.
TypeObjects == {"Grid", "MyGrid", "OtherGrid", "C1", "C2"}

module_of(t) ==
    IF t = "Grid" THEN "lib.core"
    ELSE IF t = "OtherGrid" THEN "other.sql.grid"
    ELSE IF t = "object" THEN "builtins"
    ELSE "app"

qualname_of(t) ==
    IF t \in {"Grid", "OtherGrid"} THEN "Grid"
    ELSE IF t \in {"C1", "C2"} THEN "make.<locals>.C"
    ELSE t

mro(t) ==
    IF t = "MyGrid" THEN <<"MyGrid", "Grid", "object">> ELSE <<t, "object">>

\* module_name.split('.')[0]
root_of(module_name) ==
    IF module_name \in {"lib", "lib.core"} THEN "lib"
    ELSE IF module_name \in {"other.sql", "other.sql.grid"}
    THEN "other"
    ELSE module_name

\* The (module, name) pairs given to register_type, and what importing the
\* module and reading the name gives ("none": the import fails).
LazySpecs ==
    {<<"lib", "Grid">>, <<"other.sql", "Grid">>,
     <<"nowhere", "Missing">>}

imported(spec) ==
    IF spec = <<"lib", "Grid">> THEN "Grid"
    ELSE IF spec = <<"other.sql", "Grid">> THEN "OtherGrid"
    ELSE "none"

\* The modules that importing module_name loads.
loaded_by(module_name) ==
    IF root_of(module_name) = "lib" THEN {"lib", "lib.core"}
    ELSE IF root_of(module_name) = "other"
    THEN {"other.sql", "other.sql.grid"}
    ELSE {}

\* _LazyTypeDescriptor.__init__ for a type and for a (module, name) pair.
DescriptorOfType(t) ==
    [module_name |-> module_of(t), type_name |-> qualname_of(t),
     actual_type |-> t]

DescriptorOfSpec(spec) ==
    [module_name |-> spec[1], type_name |-> spec[2], actual_type |-> "None"]

\* _LazyTypeDescriptor.type: the import happens on first access and a failure
\* is kept.
resolve(st, i) ==
    LET d == st.registry[i]
        t == imported(<<d.module_name, d.type_name>>)
    IN  IF d.actual_type # "None" THEN st
        ELSE IF t = "none"
        THEN [st EXCEPT !.registry[i].actual_type = "_TypeCouldNotBeImported"]
        ELSE [st EXCEPT !.registry[i].actual_type = t,
                        !.modules = @ \cup loaded_by(d.module_name)]

\* The positions of the descriptors indexed under first_key.
RECURSIVE indexed_with(_, _, _)
indexed_with(registry, first_key, i) ==
    IF i > Len(registry) THEN <<>>
    ELSE (IF first_key \in {registry[i].module_name, registry[i].type_name}
          THEN <<i>> ELSE <<>>) \o indexed_with(registry, first_key, i + 1)

\* The loops of is_registered over the descriptors found.
RECURSIVE scan_descriptors(_, _, _)
scan_descriptors(st, query, work) ==
    IF work = <<>> THEN [st |-> st, found |-> FALSE]
    ELSE LET d == st.registry[Head(work)]
         IN  IF /\ d.module_name \notin st.modules
                /\ root_of(query.module_name) # root_of(d.module_name)
             THEN scan_descriptors(st, query, Tail(work))
             ELSE LET s1 == resolve(st, Head(work))
                      registered_type == s1.registry[Head(work)].actual_type
                  IN  IF /\ registered_type # "_TypeCouldNotBeImported"
                         /\ registered_type = query.actual_type
                      THEN [st |-> s1, found |-> TRUE]
                      ELSE scan_descriptors(s1, query, Tail(work))

is_registered(st, t) ==
    LET query == DescriptorOfType(t)
    IN  scan_descriptors(st, query,
            indexed_with(st.registry, query.module_name, 1)
               \o indexed_with(st.registry, query.type_name, 1))

RECURSIVE is_inherited_from_registered(_, _, _)
is_inherited_from_registered(st, ancestors, i) ==
    IF i > Len(ancestors) THEN [st |-> st, found |-> FALSE]
    ELSE LET r == is_registered(st, ancestors[i])
         IN  IF r.found THEN r
             ELSE is_inherited_from_registered(r.st, ancestors, i + 1)

Bool(b) == IF b THEN "True" ELSE "False"

\* is_atomic_type under functools.cache.
is_atomic_type(st, t) ==
    IF st.cache[t] # "none" THEN [st EXCEPT !.ret = st.cache[t]]
    ELSE LET r == is_inherited_from_registered(st, mro(t), 1)
         IN  [r.st EXCEPT !.cache[t] = Bool(r.found), !.ret = Bool(r.found)]

EmptyCache == [t \in TypeObjects |-> "none"]

\* self._indexed_types[first_key][second_key] = type_spec, for both keys.
RECURSIVE store(_, _, _)
store(registry, d, i) ==
    IF i > Len(registry) THEN Append(registry, d)
    ELSE IF /\ registry[i].module_name = d.module_name
            /\ registry[i].type_name = d.type_name
    THEN [registry EXCEPT ![i] = d]
    ELSE store(registry, d, i + 1)

\* _LazyTypeRegistry.register_type
register_type(st, d) ==
    [st EXCEPT !.cache = EmptyCache, !.registry = store(@, d, 1)]

\* The types whose class object exists: those of the loaded modules.
Existing(st) == {t \in TypeObjects : module_of(t) \in st.modules}

RegisterType ==
    /\ \E t \in Existing(res) :
          /\ Len(store(res.registry, DescriptorOfType(t), 1)) <= MaxRegistered
          /\ res' = register_type(res, DescriptorOfType(t))
          /\ args' = [op |-> "register_type", type |-> t]
          /\ visited' = visited \cup {t}
    /\ pc' = "registered"
    /\ UNCHANGED <<heap, root, stack, seen_ids, out>>

RegisterNames ==
    /\ \E spec \in LazySpecs :
          /\ Len(store(res.registry, DescriptorOfSpec(spec), 1)) <= MaxRegistered
          /\ res' = register_type(res, DescriptorOfSpec(spec))
          /\ args' = [op |-> "register_type", type |-> imported(spec)]
          /\ visited' = visited \cup ({imported(spec)} \ {"none"})
    /\ pc' = "registered"
    /\ UNCHANGED <<heap, root, stack, seen_ids, out>>

IsAtomicType ==
    /\ \E t \in Existing(res) :
          /\ res' = is_atomic_type(res, t)
          /\ args' = [op |-> "is_atomic_type", type |-> t]
          /\ seen_ids' = IF res'.ret = "True" THEN seen_ids \cup {t}
                         ELSE seen_ids
    /\ pc' = "returned"
    /\ UNCHANGED <<heap, root, stack, visited, out>>

\* The program imports other.sql.
ImportModule ==
    /\ "other.sql" \notin res.modules
    /\ res' = [res EXCEPT !.modules = @ \cup loaded_by("other.sql")]
    /\ args' = [op |-> "import", type |-> "none"]
    /\ pc' = "imported"
    /\ UNCHANGED <<heap, root, stack, seen_ids, visited, out>>

InitRegistry ==
    /\ heap = <<>>
    /\ root = 0
    /\ pc = "idle"
    /\ args = [op |-> "none", type |-> "none"]
    /\ stack = <<>>
    /\ seen_ids = {}
    /\ visited = {}
    /\ out = <<>>
    /\ res = [registry |-> <<>>, cache |-> EmptyCache,
              modules |-> {"builtins", "app", "lib", "lib.core"},
              ret |-> "none"]

NextRegistry == RegisterType \/ RegisterNames \/ IsAtomicType \/ ImportModule

SpecRegistry == InitRegistry /\ [][NextRegistry]_vars

(***************************************************************************)
(* Graphs that hold an instance of an atomic type with an inside: a str    *)
(* (or an instance of a subclass of str) whose items are what iterating it *)
(* or reading its fields would give.                                       *)
(***************************************************************************)
AtomicGraphs ==
    LET atom == NLeaf + 1
        ids  == 1..(NLeaf + 2)
    IN {l \o <<Obj("str", 1, <<>>, inside), r>> :
          l \in LeafHeaps,
          inside \in SeqsUpTo(Leaves, MaxLen),
          r \in UNION {ContRecs(k, ids) : k \in {"list", "tuple", "dict", "obj"}}}

InitAtomic ==
    /\ heap \in AtomicGraphs
    /\ root = Len(heap)
    /\ pc = "idle"
    /\ args = NoArgs
    /\ stack = <<>>
    /\ seen_ids = {}
    /\ visited = <<>>
    /\ out = <<>>
    /\ res = "none"

NextAtomic == NextTrav \/ Transform

SpecAtomic == InitAtomic /\ [][NextAtomic]_vars

SpecTravLive == SpecTrav /\ WF_vars(NextTrav)

(***************************************************************************)
(* Properties of the traversal.                                            *)
(***************************************************************************)
NoDuplicates(s) == \A i, j \in DOMAIN s : s[i] = s[j] => i = j

\* The objects the child-extraction function leads to from i.
ChildSet(h, a, i) ==
    LET c == get_children_fn(h, a, i)
    IN IF c = None THEN {} ELSE Range(c)

RECURSIVE TravReachFrom(_, _, _, _)
TravReachFrom(h, a, frontier, acc) ==
    IF frontier = {} THEN acc
    ELSE LET acc2 == acc \cup frontier
             nxt  == UNION {ChildSet(h, a, i) : i \in frontier}
         IN TravReachFrom(h, a, nxt \ acc2, acc2)

\* Objects with a reference to i among those the traversal follows.
Referrers(h, a, i) ==
    {j \in DOMAIN h : i \in ChildSet(h, a, j)}

\* C8: in one pass of _traverse no object identity is yielded more than once,
\* only objects reachable from the root through the child-extraction function
\* are yielded, and when the pass ends every such object has been yielded.
C8_VisitExactlyOnce ==
    pc \in {"run", "done"} =>
        /\ NoDuplicates(visited)
        /\ Range(visited) \subseteq TravReachFrom(heap, args, {root}, {})
        /\ pc = "done" =>
              Range(visited) = TravReachFrom(heap, args, {root}, {})

\* C8 witness: a finished pass over a graph in which the root lies on a cycle
\* and some object is referenced from two places.
C8_Witness ==
    /\ pc = "done"
    /\ root \in UNION {ChildSet(heap, args, i) : i \in Range(visited)}
    /\ \E i \in Range(visited) : Cardinality(Referrers(heap, args, i)) >= 2
    /\ Len(visited) >= 3

\* C9: the lazy sequences of flatten and find are finite: the traversal ends
\* (the stack is empty and the generator is exhausted, or the argument check
\* raised) on every finite graph, cycles included.
C9_Terminates == <>(pc \in {"done", "error"} /\ stack = <<>>)

\* C9 witness: an exhausted traversal of a container that contains itself.
C9_Witness ==
    /\ pc = "done"
    /\ stack = <<>>
    /\ root \in ChildSet(heap, args, root)
    /\ Len(visited) >= 2

\* The root holds two distinct lists of leaves with equal contents.
TwoEqualLists ==
    /\ heap[root].kind = "list"
    /\ Len(heap[root].items) = 2
    /\ LET a == heap[root].items[1]
           b == heap[root].items[2]
       IN /\ a # b
          /\ heap[a].kind = "list"
          /\ heap[b].kind = "list"
          /\ Range(heap[a].items) \cup Range(heap[b].items) \subseteq Leaves
          /\ Len(heap[a].items) = Len(heap[b].items)
          /\ \A k \in DOMAIN heap[a].items :
                heap[heap[a].items[k]] = heap[heap[b].items[k]]

\* The root holds the same list of leaves twice.
SameListTwice ==
    /\ heap[root].kind = "list"
    /\ Len(heap[root].items) = 2
    /\ heap[root].items[1] = heap[root].items[2]
    /\ heap[heap[root].items[1]].kind = "list"
    /\ Range(heap[heap[root].items[1]].items) \subseteq Leaves

\* C10 as stated: of two distinct lists with equal contents the leaves of both
\* are yielded (1, 2, 1, 2 for [[1, 2], [1, 2]]).
C10_Original ==
    (pc = "done" /\ args.op = "flatten" /\ TwoEqualLists) =>
        Len(out) = Len(heap[heap[root].items[1]].items)
                   + Len(heap[heap[root].items[2]].items)

\* C10 amended: deduplication is by identity for lists and leaves alike.  Of
\* two distinct lists with equal contents both are traversed and every leaf
\* object of either is yielded exactly once (equal leaves that are distinct
\* objects are each yielded, a leaf object the lists share is yielded once);
\* the same list referenced twice yields its leaf objects once.
C10_DedupByIdentity ==
    (pc = "done" /\ args.op = "flatten") =>
        /\ TwoEqualLists =>
              /\ Range(heap[root].items) \subseteq Range(visited)
              /\ Range(out) = Range(heap[heap[root].items[1]].items)
                              \cup Range(heap[heap[root].items[2]].items)
              /\ NoDuplicates(out)
        /\ SameListTwice =>
              /\ Range(out) = Range(heap[heap[root].items[1]].items)
              /\ NoDuplicates(out)

\* C10 witness: two distinct lists, each holding its own leaf of equal value:
\* both leaves were yielded.
C10_Witness ==
    /\ pc = "done"
    /\ args.op = "flatten"
    /\ TwoEqualLists
    /\ Len(out) = 2
    /\ out[1] # out[2]
    /\ heap[out[1]] = heap[out[2]]

(***************************************************************************)
(* Properties of transform.                                                *)
(***************************************************************************)
\* A call of transform has ended (returned or raised).
Transformed == pc \in {"done", "error"} /\ args.op = "transform"

\* A call of transform has returned a value.
Returned == pc = "done" /\ args.op = "transform"

\* The original objects that match classinfo.
Matches(o) == o \in DOMAIN heap /\ IsInstance(heap, o, args.classinfo)

\* i lies on a cycle of the input graph.
OnCycle(i) == i \in ReachPlus(heap, i)

\* The positions of the original graph laid over the same positions of the
\* result: a pair <<o, n>> says that somewhere the result holds n where the
\* original holds o.  Matches are not entered (transform_fn made their image).
PairStep(P) ==
    P \cup UNION {
        LET o  == p[1]
            n  == p[2]
            co == Children(res.heap, o)
            cn == Children(res.heap, n)
        IN IF Matches(o) \/ res.heap[o].kind # res.heap[n].kind
              \/ Len(co) # Len(cn)
           THEN {}
           ELSE {<<co[k], cn[k]>> : k \in DOMAIN co}
        : p \in P}

RECURSIVE PairClosure(_)
PairClosure(P) ==
    LET Q == PairStep(P) IN IF Q = P THEN P ELSE PairClosure(Q)

ImagePairs == PairClosure({<<root, res.ret>>})

\* n is what transform_fn returns for the original o (under
\* deep_transformation possibly with its attributes rebuilt in a new object).
IsTransformOf(o, n) ==
    IF args.transform_fn = "ident"
    THEN \/ n = o
         \/ /\ args.deep_transformation
            /\ ~is_atomic_object(heap, o)
            /\ n \notin DOMAIN heap
            /\ res.heap[n].kind = heap[o].kind
    ELSE IF args.transform_fn = "box"
    THEN /\ n \notin DOMAIN heap
         /\ res.heap[n] = Obj("list", 0, <<>>, <<o>>)
    ELSE IF args.transform_fn = "children"
    THEN /\ n \notin DOMAIN heap
         /\ res.heap[n] = Obj("list", 0, <<>>,
                              IF is_atomic_object(heap, o) THEN <<>>
                              ELSE heap[o].items)
    ELSE /\ n \notin DOMAIN heap
         /\ res.heap[n].kind = heap[o].kind
         /\ is_atomic_object(heap, o) => res.heap[n].val = heap[o].val * 10

\* C3 as stated: transform never ends in a recursion error, whatever the
\* cycles of the graph pass through.
C3_NeverRecursionError ==
    Transformed => res.err # "RecursionError"

\* The recursion error is raised only on a graph with a cycle.
RecursionErrorOnlyOnCycle ==
    (Transformed /\ res.err = "RecursionError") =>
        \E i \in Reach(heap, root) : OnCycle(i)

\* Cycles through lists and dicts alone are rebuilt without an error.
ListDictCyclesTolerated ==
    (Transformed /\ \A i \in Reach(heap, root) :
                       OnCycle(i) => heap[i].kind \in {"list", "dict"})
        => res.err # "RecursionError"

\* C4 as stated: in the value transform returns no original object has two
\* different images: every reference to one original object is resolved to
\* one and the same object of the result, on cycles too.
C4_SharingPreserved ==
    Returned =>
        \A p, q \in ImagePairs : p[1] = q[1] => p[2] = q[2]

\* Sharing is preserved on graphs whose cycles pass through lists and dicts
\* only.
SharingPreservedOffCycles ==
    (Returned /\ \A i \in Reach(heap, root) :
                    OnCycle(i) => heap[i].kind \in {"list", "dict"})
        => \A p, q \in ImagePairs : p[1] = q[1] => p[2] = q[2]

\* The root is a list or dict that holds itself, and a match was transformed.
SelfReferringRoot ==
    /\ Returned
    /\ heap[root].kind \in {"list", "dict"}
    /\ root \in Range(heap[root].items)
    /\ res.any

\* C5: when a list or dict that contains itself is transformed and a match
\* was found, the returned container is a new one whose self-reference
\* points to the returned container, not to the original, and the original
\* still refers to itself.
C5_SelfReferenceRebuilt ==
    SelfReferringRoot =>
        /\ res.ret # root
        /\ res.heap[res.ret].kind = heap[root].kind
        /\ Len(res.heap[res.ret].items) = Len(heap[root].items)
        /\ \A k \in DOMAIN heap[root].items :
              heap[root].items[k] = root =>
                  res.heap[res.ret].items[k] = res.ret
        /\ root \notin Range(res.heap[res.ret].items)
        /\ res.heap[root] = heap[root]

\* C5 witness: L = [1, L] with the int replaced by a new object: the result
\* is a new list holding the new int and itself.
C5_Witness ==
    /\ SelfReferringRoot
    /\ heap[root].kind = "list"
    /\ args.transform_fn = "fresh"
    /\ Len(heap[root].items) = 2
    /\ Matches(heap[root].items[1])
    /\ heap[root].items[2] = root
    /\ res.ret \notin DOMAIN heap
    /\ res.heap[res.ret].items[2] = res.ret
    /\ res.heap[res.heap[res.ret].items[1]].val = 10

\* No object reachable from the root matches classinfo.
NoMatch == \A i \in Reach(heap, root) : ~IsInstance(heap, i, args.classinfo)

\* C6 as stated: when nothing reachable from the root matches, transform
\* returns the root object itself, for every graph shape, cycles included.
C6_NoOpStability ==
    (Transformed /\ NoMatch) => (pc = "done" /\ res.ret = root)

\* Whenever transform returns and nothing matched, it returns the root.
NoOpWhenReturned ==
    (Returned /\ NoMatch) => res.ret = root

\* C7 as stated: the returned value has the structure of the root (kinds,
\* keys, element order) except that every match is replaced by
\* transform_fn(match); no match is left in a rebuilt position.
C7_StructuralResult ==
    Returned =>
        \A p \in ImagePairs :
            IF Matches(p[1]) THEN IsTransformOf(p[1], p[2])
            ELSE /\ res.heap[p[2]].kind = heap[p[1]].kind
                 /\ Len(res.heap[p[2]].keys) = Len(heap[p[1]].keys)
                 /\ Len(res.heap[p[2]].items) = Len(heap[p[1]].items)
                 /\ is_atomic_object(heap, p[1]) => p[2] = p[1]

\* The result has the structure of the root when no tuple lies on a cycle.
StructuralResultWithoutTupleCycles ==
    (Returned /\ \A i \in Reach(heap, root) :
                    OnCycle(i) => heap[i].kind # "tuple")
        => \A p \in ImagePairs :
            IF Matches(p[1]) THEN IsTransformOf(p[1], p[2])
            ELSE /\ res.heap[p[2]].kind = heap[p[1]].kind
                 /\ Len(res.heap[p[2]].keys) = Len(heap[p[1]].keys)
                 /\ Len(res.heap[p[2]].items) = Len(heap[p[1]].items)
                 /\ is_atomic_object(heap, p[1]) => p[2] = p[1]

(***************************************************************************)
(* Properties of serialization.                                            *)
(***************************************************************************)
\* The call of dumpjs / _to_serializable_dict on the root has ended.
Serialized ==
    pc \in {"dumped", "error", "loaded", "load_error"} /\ args.op \in SerOps

\* Serialization and deserialization have both ended, or one has raised.
RoundTripEnded ==
    pc \in {"error", "loaded", "load_error"} /\ args.op \in SerOps

\* The objects serialization descends into from i: elements, dict values,
\* parameters and state, never dict keys.
RECURSIVE ValueReachFrom(_, _, _)
ValueReachFrom(h, frontier, acc) ==
    IF frontier = {} THEN acc
    ELSE LET acc2 == acc \cup frontier
             nxt  == UNION {Range(h[i].items) : i \in frontier}
         IN ValueReachFrom(h, nxt \ acc2, acc2)

ValueReach(h, i) == ValueReachFrom(h, {i}, {})

\* i contains itself through elements, dict values, parameters or state.
OnValueCycle(h, i) == i \in ValueReachFrom(h, Range(h[i].items), {})

\* The graph of the root has no cycle and holds JSON primitives, lists,
\* tuples, sets, dicts and custom objects only.
RoundTripDomain ==
    /\ \A i \in Reach(heap, root) :
          /\ ~OnCycle(i)
          /\ heap[i].kind \notin UnsupportedKinds \cup EnumKinds

\* C1 as stated: on an acyclic graph of JSON primitives, list / tuple / set /
\* dict containers and custom objects, serialization and deserialization
\* raise nothing and yield a value equal to the root in type and content.
C1_RoundTrip ==
    (RoundTripEnded /\ RoundTripDomain) =>
        /\ pc = "loaded"
        /\ res.v = ValueOf(heap, root)

\* The keys of every dict are strs, or the JSON text is not passed through.
StrKeysOrNoText ==
    \/ args.op = "_to_serializable_dict"
    \/ \A i \in Reach(heap, root) :
          \A k \in Range(heap[i].keys) : heap[k].kind = "str"

\* No plain object is without attributes where object.__getstate__ exists.
NoEmptyState ==
    \A i \in Reach(heap, root) :
        ~(heap[i].kind = "obj" /\ getstate_is_None(heap, i, args.builtin_getstate))

\* The round trip holds for graphs whose dict keys are strs and whose plain
\* objects have a state.
RoundTripOfStrKeysAndStates ==
    (RoundTripEnded /\ RoundTripDomain /\ StrKeysOrNoText /\ NoEmptyState) =>
        /\ pc = "loaded"
        /\ res.v = ValueOf(heap, root)

RECURSIVE OutsideAtomsFrom(_, _, _)
OutsideAtomsFrom(h, frontier, acc) ==
    IF frontier = {} THEN acc
    ELSE LET acc2 == acc \cup frontier
             nxt  == UNION {Range(Children(h, i)) :
                              i \in {j \in frontier : ~is_atomic_object(h, j)}}
         IN OutsideAtomsFrom(h, nxt \ acc2, acc2)

OutsideAtoms == OutsideAtomsFrom(heap, {root}, {})

\* C11: an instance of an atomic type is never decomposed, even when it is
\* iterable: flatten and find visit nothing that is reachable only through
\* the inside of an atomic object, transform reconstructs nothing of it and
\* applies transform_fn to nothing of it; flatten yields every atomic object
\* it visits whole, and everything flatten yields is a leaf, never a
\* traversable container.
C11_AtomicsNotDecomposed ==
    /\ (pc \in {"run", "done"} /\ args.op \in {"flatten", "find"}) =>
          /\ Range(visited) \subseteq OutsideAtoms
          /\ args.op = "flatten" =>
                /\ \A i \in Range(visited) :
                      is_atomic_object(heap, i) => i \in Range(out)
                /\ \A i \in Range(out) :
                      is_atomic_object(heap, i) \/ ~IsIterable(heap, i)
    /\ (pc \in {"done", "error"} /\ args.op = "transform") =>
          /\ DOMAIN res.seen \subseteq OutsideAtoms
          /\ Range(res.calls) \subseteq OutsideAtoms

\* C11 witness: flatten has ended and has yielded a str whose inside holds an
\* object that is found nowhere else in the graph and was not visited.
C11_Witness ==
    /\ pc = "done"
    /\ args.op = "flatten"
    /\ \E a \in Range(out) :
          /\ heap[a].kind = "str"
          /\ \E c \in Range(heap[a].items) :
                /\ c \notin OutsideAtoms
                /\ c \notin Range(visited)

(***************************************************************************)
(* Properties of find.                                                     *)
(***************************************************************************)
\* The objects reachable from the frontier without passing through an
\* object that matches classinfo (a match is reached, not entered).
RECURSIVE OutsideMatchesFrom(_, _, _, _)
OutsideMatchesFrom(h, classinfo, frontier, acc) ==
    IF frontier = {} THEN acc
    ELSE LET acc2 == acc \cup frontier
             nxt  == UNION {Range(Children(h, i)) :
                              i \in {j \in frontier :
                                        ~IsInstance(h, j, classinfo)}}
         IN OutsideMatchesFrom(h, classinfo, nxt \ acc2, acc2)

\* The matches among a set of objects.
MatchesIn(S) == {i \in S : IsInstance(heap, i, args.classinfo)}

\* C12: find with deep_search=True yields every reachable object that matches
\* classinfo, matches inside matches included; with deep_search=False it
\* yields exactly the matches that can be reached without passing through
\* another match, and never explores the children of a match.
C12_DeepSearch ==
    (pc = "done" /\ args.op = "find") =>
        IF args.deep_search
        THEN Range(out) = MatchesIn(Reach(heap, root))
        ELSE LET outside == OutsideMatchesFrom(heap, args.classinfo, {root}, {})
             IN /\ Range(out) = MatchesIn(outside)
                /\ Range(visited) = outside

\* A match that holds another match, which is reachable only through matches.
NestedMatch(outer, inner) ==
    /\ outer # inner
    /\ IsInstance(heap, outer, args.classinfo)
    /\ IsInstance(heap, inner, args.classinfo)
    /\ inner \in Range(Children(heap, outer))
    /\ inner \notin OutsideMatchesFrom(heap, args.classinfo, {root}, {})

\* C12 witness: a finished find with deep_search=False over a root that
\* matches and holds another match: only the root was yielded.
C12_Witness ==
    /\ pc = "done"
    /\ args.op = "find"
    /\ ~args.deep_search
    /\ \E inner \in DOMAIN heap : NestedMatch(root, inner)
    /\ out = <<root>>

\* A finished find with deep_search=True has yielded a match and the match
\* nested inside it.
DeepSearchFindsNestedMatch ==
    /\ pc = "done"
    /\ args.op = "find"
    /\ args.deep_search
    /\ \E inner \in DOMAIN heap : NestedMatch(root, inner) /\ inner \in Range(out)
    /\ root \in Range(out)

(***************************************************************************)
(* Properties of the serialized form.                                      *)
(***************************************************************************)
\* The records of a serialized tree at every depth: its JSON objects, the
\* mapping under a DICT marker (the entries of a user's dict or of a
\* parameter / state mapping) excepted.
RECURSIVE RecordsOf(_)
RecordsOf(j) ==
    IF j.k = "array" THEN UNION {RecordsOf(j.xs[i]) : i \in DOMAIN j.xs}
    ELSE IF j.k # "object" THEN {}
    ELSE {j} \cup UNION {
             IF j.ks[i] = Markers_DICT /\ j.xs[i].k = "object"
             THEN UNION {RecordsOf(j.xs[i].xs[m]) : m \in DOMAIN j.xs[i].xs}
             ELSE RecordsOf(j.xs[i])
             : i \in DOMAIN j.ks}

PayloadMarkers == {Markers_PARAMS, Markers_STATE, Markers_ENUM}

\* Module name, class name and exactly one of PARAMS, STATE, ENUM; no more.
IsClassRecord(r) ==
    /\ Len(r.ks) = 3
    /\ HasKey(r, Markers_MODULE)
    /\ HasKey(r, Markers_CLASS)
    /\ Cardinality({m \in PayloadMarkers : HasKey(r, m)}) = 1

\* One of TUPLE, SET, DICT and nothing else.
IsContainerRecord(r) ==
    /\ Len(r.ks) = 1
    /\ r.ks[1] \in {Markers_TUPLE, Markers_SET, Markers_DICT}

\* The class name the serializer gives the objects of a kind.
ClassNameOf(kind) ==
    IF kind = "params" THEN "P" ELSE IF kind = "enum" THEN "Color" ELSE "E"

\* C13: in what the serializer returns, at every depth, each record that
\* stands for a custom-class instance or an Enum member holds the module
\* name, the class name and exactly one of PARAMS, STATE, ENUM, and nothing
\* else; every other record is a single TUPLE, SET or DICT marker; every
\* custom object and Enum member that is serialized has such a record.
C13_MarkerRecordShape ==
    (pc = "dumped" /\ args.op \in SerOps) =>
        LET records == RecordsOf(res.js)
        IN /\ \A r \in records : IsClassRecord(r) \/ IsContainerRecord(r)
           /\ \A r \in records :
                 (\E m \in PayloadMarkers \cup {Markers_CLASS, Markers_MODULE} :
                     HasKey(r, m)) => IsClassRecord(r)
           /\ \A i \in ValueReach(heap, root) :
                 heap[i].kind \in CustomKinds \cup EnumKinds =>
                     \E r \in records :
                         /\ IsClassRecord(r)
                         /\ Get(r, Markers_CLASS).s = ClassNameOf(heap[i].kind)
           /\ heap[root].kind \in CustomKinds => IsClassRecord(res.js)

\* C13 witness: a custom object that holds an Enum member and another custom
\* object was serialized: class records at two depths.
C13_Witness ==
    /\ pc = "dumped"
    /\ args.op \in SerOps
    /\ heap[root].kind \in CustomKinds
    /\ \E i, j \in Range(heap[root].items) :
          /\ heap[i].kind \in EnumKinds
          /\ heap[j].kind \in CustomKinds
    /\ Cardinality({r \in RecordsOf(res.js) : IsClassRecord(r)}) >= 3


\* The reference positions of the root at which s stands.
PositionsOf(s) == {i \in DOMAIN heap[root].items : heap[root].items[i] = s}

\* The part of the root's serialized form written for its i-th element,
\* value, parameter or attribute.
ChildJs(js, i) ==
    IF heap[root].kind = "list" THEN js.xs[i]
    ELSE IF heap[root].kind \in {"tuple", "set", "dict"} THEN js.xs[1].xs[i]
    ELSE IF heap[root].kind = "params"
    THEN Get(js, Markers_PARAMS).xs[1].xs[i]
    ELSE Get(js, Markers_STATE).xs[1].xs[i]

\* s is not a JSON primitive (its identity enters seen) and the root refers
\* to it from two places; nothing reachable contains itself.
SharedAcyclic(s) ==
    /\ heap[s].kind \notin JsonPrimitiveKinds \cup UnsupportedKinds
    /\ Cardinality(PositionsOf(s)) >= 2
    /\ \A i \in ValueReach(heap, root) : ~OnValueCycle(heap, i)

\* C14: seen is a path guard.  When the root refers twice to one object and
\* the graph has no cycle, serialization raises no cycle error, and (when it
\* raises nothing) writes the object's full serialized form at each of the
\* two references.
C14_SeenIsPathGuard ==
    (pc \in {"dumped", "error"} /\ args.op = "_to_serializable_dict") =>
        \A s \in Range(heap[root].items) :
            SharedAcyclic(s) =>
                /\ res.err # "RecursionError"
                /\ res.err = "none" =>
                      \A i \in PositionsOf(s) :
                          ChildJs(res.js, i) =
                              to_serializable_dict(heap, s, {},
                                  args.builtin_getstate).js

\* C14 witness: a root that holds the same container twice was serialized.
C14_Witness ==
    /\ pc = "dumped"
    /\ args.op = "_to_serializable_dict"
    /\ \E s \in Range(heap[root].items) :
          /\ SharedAcyclic(s)
          /\ heap[s].kind \in {"list", "tuple", "set", "dict"} \cup CustomKinds
          /\ heap[s].items # <<>>


(***************************************************************************)
(* Properties of deserialization.                                          *)
(***************************************************************************)
Loaded == pc \in {"loaded", "load_error"} /\ args.op \in LoadOps

ContainerMarkers == {Markers_TUPLE, Markers_SET, Markers_DICT}

SixMarkers == ContainerMarkers \cup PayloadMarkers

\* The record breaks the marker rules: two of the six markers at once, a
\* TUPLE or SET marker mapped to something other than an array, or no
\* marker at all.
Malformed(x) ==
    \/ Cardinality({m \in SixMarkers : HasKey(x, m)}) >= 2
    \/ \E m \in {Markers_TUPLE, Markers_SET} :
          HasKey(x, m) /\ Get(x, m).k # "array"
    \/ \A m \in SixMarkers \cup {Markers_MODULE, Markers_CLASS} : ~HasKey(x, m)

\* C15 as stated: deserialization of a malformed marker record raises
\* TypeError and returns no object.
C15_MalformedRejected ==
    (Loaded /\ Malformed(args.x)) =>
        (pc = "load_error" /\ res.err = "TypeError")

\* What the code does reject: a malformed record in which TUPLE, SET or DICT
\* stands, or which lacks MODULE or CLASS.
MalformedContainerRecordsRejected ==
    (/\ Loaded
     /\ Malformed(args.x)
     /\ \/ \E m \in ContainerMarkers : HasKey(args.x, m)
        \/ ~HasKey(args.x, Markers_MODULE)
        \/ ~HasKey(args.x, Markers_CLASS))
    => (pc = "load_error" /\ res.err = "TypeError")

\* A STATE record of the slotted class whose tuple state is a plain tuple
\* of n slot values, or the pair (sequence of n slot values, None).
StoresSlotValues(x, n) ==
    /\ x \in TupleStateRecords
    /\ Get(x, Markers_CLASS).s = "S"
    /\ LET xs == Get(x, Markers_STATE).xs[1].xs
       IN \/ /\ Len(xs) = n
             /\ \A i \in DOMAIN xs : xs[i].k = "number"
          \/ /\ Len(xs) = 2
             /\ xs[1].k = "array"
             /\ Len(xs[1].xs) = n
             /\ xs[2].k = "null"

\* C16 as stated: a stored sequence of slot values whose length (0
\* included) differs from the number of slots of the class makes
\* deserialization raise TypeError.
C16_SlotCountMismatchRejected ==
    Loaded =>
        \A n \in 0..(NSlots + 1) :
            (n # NSlots /\ StoresSlotValues(args.x, n)) =>
                (pc = "load_error" /\ res.err = "TypeError")

\* What the code does reject: a non-empty sequence of the wrong length.
NonEmptySlotCountMismatchRejected ==
    Loaded =>
        \A n \in 1..(NSlots + 1) :
            (n # NSlots /\ StoresSlotValues(args.x, n)) =>
                (pc = "load_error" /\ res.err = "TypeError")

\* A sequence of the right length fills the slots.
SlotsFilled ==
    (Loaded /\ StoresSlotValues(args.x, NSlots)) =>
        (pc = "loaded" /\ Cardinality(res.v.xs) = NSlots)


(***************************************************************************)
(* Properties of argument checking.                                        *)
(***************************************************************************)
\* C17: find and transform called with an invalid classinfo, and transform
\* called with a transform_fn that is not callable, raise TypeError; no
\* object of the graph has been visited or reconstructed, nothing yielded,
\* and transform_fn has not been called.
C17_InvalidArgumentsRejected ==
    /\ (args.op = "find" /\ args.classinfo \in InvalidClassInfos) =>
          /\ pc = "error"
          /\ res = "TypeError"
          /\ visited = <<>>
          /\ seen_ids = {}
          /\ out = <<>>
    /\ (/\ args.op = "transform"
        /\ \/ args.classinfo \in InvalidClassInfos
           \/ args.transform_fn \notin TransformFns) =>
          /\ pc = "error"
          /\ res.err = "TypeError"
          /\ res.calls = <<>>
          /\ res.seen = <<>>
          /\ res.heap = heap

\* C17 witness: transform was called with a valid classinfo and a
\* transform_fn that is not callable on a root that holds a match.
C17_Witness ==
    /\ pc = "error"
    /\ args.op = "transform"
    /\ args.classinfo \in ClassInfos
    /\ args.transform_fn \notin TransformFns
    /\ \E i \in Range(heap[root].items) : IsInstance(heap, i, args.classinfo)

\* find was called with (int, 5) on a root that holds an int.
FindRejectedInvalidClassinfo ==
    /\ pc = "error"
    /\ args.op = "find"
    /\ args.classinfo = {"int", "5"}
    /\ \E i \in Range(heap[root].items) : heap[i].kind = "int"


(***************************************************************************)
(* Properties of update_jsparams and access_jsparams.                      *)
(***************************************************************************)
\* The blob holds a DICT-marked parameter mapping, directly or inside a
\* PARAMS wrapper.
HoldsParams(blob) ==
    /\ blob.k = "object"
    /\ \/ HasPick(blob)
       \/ HasKey(blob, Markers_PARAMS) /\ HasPick(Get(blob, Markers_PARAMS))

\* The parameter mapping of a blob that holds one.
ParamsOf(blob) ==
    IF HasKey(blob, Markers_PARAMS)
    THEN Get(Get(blob, Markers_PARAMS), Markers_DICT)
    ELSE Get(blob, Markers_DICT)

\* update_jsparams has returned; access_jsparams of the updated blob with
\* the updated name has ended.
AccessedAfterUpdate ==
    /\ pc \in {"accessed", "access_error"}
    /\ args.updated
    /\ args.name = args.k

\* The parameters other than k and the class and module entries are the
\* same in the blobs a and b.
SameButFor(a, b, k) ==
    /\ {a.ks[i] : i \in DOMAIN a.ks} = {b.ks[i] : i \in DOMAIN b.ks}
    /\ \A m \in {Markers_CLASS, Markers_MODULE} :
          HasKey(a, m) => Get(a, m) = Get(b, m)
    /\ \A i \in DOMAIN ParamsOf(a).ks :
          ParamsOf(a).ks[i] # k =>
              /\ HasKey(ParamsOf(b), ParamsOf(a).ks[i])
              /\ Get(ParamsOf(b), ParamsOf(a).ks[i]) = ParamsOf(a).xs[i]
    /\ \A i \in DOMAIN ParamsOf(b).ks :
          ParamsOf(b).ks[i] # k => HasKey(ParamsOf(a), ParamsOf(b).ks[i])

\* The update leaves everything but the parameter k as it was.
UpdateChangesOnlyK ==
    (pc = "updated" /\ args.op = "update_jsparams") =>
        SameButFor(args.blob, json_loads(res.js), args.k)

\* A blob without a parameter mapping and an absent name fail with KeyError.
KeyErrors ==
    /\ (args.op = "update_jsparams" /\ ~HoldsParams(args.blob)) =>
          (pc = "error" /\ res.err = "KeyError")
    /\ (args.op = "access_jsparams" /\ ~args.updated) =>
          IF HoldsParams(args.blob) /\ HasKey(ParamsOf(args.blob), args.name)
          THEN pc = "accessed"
          ELSE pc = "access_error" /\ res.err = "KeyError"

\* C18 as stated: for a blob that holds a parameter mapping and a new value
\* v (an acyclic graph of JSON primitives, containers and custom objects),
\* access_jsparams(update_jsparams(blob, k=v), k) returns {k: v}; the update
\* changes nothing but k; a blob without a parameter mapping and an absent
\* name fail with KeyError.
C18_UpdateThenAccess ==
    /\ (args.op = "update_jsparams" /\ HoldsParams(args.blob)
           /\ RoundTripDomain) => pc = "updated"
    /\ (AccessedAfterUpdate /\ RoundTripDomain) =>
          /\ pc = "accessed"
          /\ res.v = V("dict", 0, {<<args.k, ValueOf(heap, root)>>})
    /\ UpdateChangesOnlyK
    /\ KeyErrors

\* The keys of every dict inside the new value are strs.
StrKeys == \A i \in Reach(heap, root) :
               \A k \in Range(heap[i].keys) : heap[k].kind = "str"

\* What holds of the code: C18 for new values whose dict keys are strs and
\* whose plain objects have a state.
UpdateThenAccessOfStrKeysAndStates ==
    /\ (args.op = "update_jsparams" /\ HoldsParams(args.blob)
           /\ RoundTripDomain /\ StrKeys) => pc = "updated"
    /\ (AccessedAfterUpdate /\ RoundTripDomain /\ StrKeys /\ NoEmptyState) =>
          /\ pc = "accessed"
          /\ res.v = V("dict", 0, {<<args.k, ValueOf(heap, root)>>})
    /\ UpdateChangesOnlyK
    /\ KeyErrors


(***************************************************************************)
(* Properties of guarded initialization.                                   *)
(***************************************************************************)
Hooks == {"__post_init__", "__post_setstate__"}

\* Every hook that ran saw _init_finished True.
HooksSeeFinished ==
    \A i \in DOMAIN out : out[i].ev \in Hooks => out[i].flag = "True"

\* C19 as stated: _init_finished is False all through __init__, is True
\* only after __init__ has returned, is True whenever a hook runs, and is
\* True on every object that construction or a successful state
\* restoration returns.
C19_Lifecycle ==
    /\ pc = "in_init" => res.init_finished = "False"
    /\ res.init_finished = "True" =>
          pc \notin {"new_done", "in_init", "init_returned"}
    /\ HooksSeeFinished
    /\ pc \in {"returned", "setstate_returned"} => res.init_finished = "True"

\* The invariant part of the amended C19.
LifecycleOfInstances ==
    /\ (pc = "in_init" /\ ~res.init_wrote_flag) => res.init_finished = "False"
    /\ (res.init_finished = "True"
           /\ pc \in {"new_done", "in_init", "init_returned"}) =>
          res.init_wrote_flag
    /\ HooksSeeFinished
    /\ (pc \in {"finished", "returned"} /\ res.is_instance) =>
          res.init_finished = "True"
    /\ (pc = "returned" /\ ~res.is_instance) => res = NewInstance(FALSE)
    /\ (pc = "setstate_returned" /\ args.isinstance_self_cls) =>
          res.init_finished = "True"

\* An __init__ that returns with the flag True ends the construction with
\* RuntimeError.
PrematureFlagRaises ==
    (pc = "init_returned" /\ res.init_finished = "True") =>
        (pc' = "raised" /\ res'.err = "RuntimeError")

\* C19 amended: _init_finished is False from the entry of __init__ until
\* __init__ itself assigns it; before the metaclass sets it, only __init__
\* can have made it True, and an __init__ that returns with it True makes
\* the construction raise RuntimeError; every hook that runs sees it True;
\* every instance of the class that construction returns, and every
\* instance of the wrapper's class whose state restoration succeeds, has it
\* True; an object of another class that __new__ returns is returned as
\* __new__ left it.
C19_LifecycleOfInstances ==
    []LifecycleOfInstances /\ [][PrematureFlagRaises]_vars

\* C19 witness: an instance was constructed, its __post_init__ ran, its
\* state was restored and its __post_setstate__ ran.
C19_Witness ==
    /\ pc = "setstate_returned"
    /\ args.isinstance_self_cls
    /\ Len(out) = 2
    /\ out[1].ev = "__post_init__"
    /\ out[2].ev = "__post_setstate__"
    /\ res.init_finished = "True"

\* The dict, or the dict part of the 2-tuple, holds _init_finished = True.
ClaimsFinished(state) ==
    /\ state.form \in {"dict", "tuple", "tuple_other"}
    /\ state.dict.present
    /\ state.dict.flag = "True"

\* C20: a state whose dict (or dict part) holds _init_finished = True makes
\* the wrapped __setstate__ raise RuntimeError; the instance is as it was
\* before the call, and neither the original __setstate__ nor
\* __post_setstate__ has been called.
C20_FinishedStateRefused ==
    (args.op = "__setstate__" /\ ClaimsFinished(args.state)) =>
        /\ pc \in {"validating", "raised"}
        /\ pc = "raised" => res.err = "RuntimeError"
        /\ [res EXCEPT !.err = "none"] = args.before
        /\ Len(out) = args.logged

\* C20 witness: a constructed instance of a class with an original
\* __setstate__ and a __post_setstate__ refused the state
\* ({_init_finished: True, ...}, None).
C20_Witness ==
    /\ pc = "raised"
    /\ args.op = "__setstate__"
    /\ ClaimsFinished(args.state)
    /\ args.state.form = "tuple"
    /\ args.original_setstate
    /\ args.post_setstate = "returns"
    /\ args.before.attrs # {}


(***************************************************************************)
(* Properties of the identity key.                                         *)
(***************************************************************************)
\* The step of a read of the identity key inside __init__ ends in
\* RuntimeError, and with it the construction.
ReadRaises == pc' = "raised" /\ res'.err = "RuntimeError"

HashedWhileReinitialized ==
    /\ pc = "in_init"
    /\ res.init_finished = "False"
    /\ ~res.init_wrote_flag
    /\ Len(out) > 0
    /\ out[Len(out)].ev = "identity_key"
    /\ out[Len(out)].flag = "False"

(***************************************************************************)
(* Properties of SpecCache.                                                *)
(***************************************************************************)
CachedNames == get_cached_properties_names_for_class(heap)

StatusOf(n) == get_cached_property_status(heap, res, n)

\* C22: after any sequence of property accesses, _set_cached_properties and
\* _invalidate_cache calls, _get_cached_property_status(name) is True exactly
\* when the property was accessed (its value was returned) or set since the
\* last _invalidate_cache, for every cached property of an instance that can
\* hold cached values; a status that the last call returned is that value;
\* and right after _invalidate_cache returned every cached property reports
\* False.
C22_StatusTracksOperations ==
    /\ res.has_dict =>
          \A n \in CachedNames :
             /\ StatusOf(n).err = "none"
             /\ StatusOf(n).ret = "True" <=> n \in visited
    /\ (pc = "returned" /\ args.op = "_get_cached_property_status") =>
          (res.ret = "True" <=> args.name \in visited)
    /\ (pc = "returned" /\ args.op = "_invalidate_cache") =>
          \A n \in CachedNames : StatusOf(n).ret = "False"

\* A status of False is reported for a property that was cached before the
\* last _invalidate_cache, while another one, set after it, reports True.
C22_Witness ==
    /\ pc = "returned"
    /\ args.op = "_get_cached_property_status"
    /\ res.ret = "False"
    /\ args.name \in seen_ids
    /\ \E n \in CachedNames : n # args.name /\ StatusOf(n).ret = "True"
                              /\ res.dict[n] \in SetValues

InvalidName(call) ==
    /\ call.op = "_set_cached_properties"
    /\ Provided(call.names_values) \ CachedNames # {}

GetOf(call, names) ==
    /\ call.op = "_get_cached_property"
    /\ call.name \in names

\* C23 as stated: whatever the instance, _set_cached_properties given a name
\* that is not a cached property raises ValueError and writes nothing, and
\* _get_cached_property raises ValueError for such a name and KeyError for a
\* cached property without a cached value.
C23_SetIsAllOrNothing ==
    [][/\ InvalidName(args') => (res'.err = "ValueError" /\ res'.dict = res.dict)
       /\ GetOf(args', AttrNames \ CachedNames) => res'.err = "ValueError"
       /\ GetOf(args', {n \in CachedNames : res.dict[n] = "absent"})
             => res'.err = "KeyError"]_vars

\* C23 amended: the same on an instance that has a __dict__; on an instance
\* without one both methods raise TypeError before they look at any name,
\* and nothing is written either.
C23_SetIsAllOrNothingWithDict ==
    [][/\ res.has_dict =>
            /\ InvalidName(args') =>
                  (res'.err = "ValueError" /\ res'.dict = res.dict)
            /\ GetOf(args', AttrNames \ CachedNames) => res'.err = "ValueError"
            /\ GetOf(args', {n \in CachedNames : res.dict[n] = "absent"})
                  => res'.err = "KeyError"
       /\ (~res.has_dict /\ (InvalidName(args') \/ GetOf(args', AttrNames)))
             => (res'.err = "TypeError" /\ res'.dict = res.dict)]_vars

\* A call that names a cached property and a plain property together was
\* refused on an instance that already held a cached value.
C23_Witness ==
    /\ pc = "raised"
    /\ args.op = "_set_cached_properties"
    /\ res.err = "ValueError"
    /\ Provided(args.names_values) \cap CachedNames # {}
    /\ "p" \in Provided(args.names_values)
    /\ \E n \in CachedNames : res.dict[n] # "absent"

\* The same call on an instance without a __dict__ raised TypeError.
SetRefusedWithoutDict ==
    /\ pc = "raised"
    /\ args.op = "_set_cached_properties"
    /\ ~res.has_dict
    /\ res.err = "TypeError"
    /\ Provided(args.names_values) \ CachedNames # {}

(***************************************************************************)
(* Properties of SpecCapture.                                              *)
(***************************************************************************)
Restored ==
    /\ res.stdout = 1
    /\ res.stderr = 2
    /\ res.handlers = visited

Captured(c) == {res.captured_buffer[c][i] : i \in 1..Len(res.captured_buffer[c])}

\* Every text written so far is held by exactly the capturers whose block
\* was open when it was written.
CapturedByOpenOnly ==
    \A i \in 1..Len(out) : \A c \in Capturers :
        out[i].text \in Captured(c) <=> c \in out[i].open

\* C24 as stated: after any properly nested sequence of enters and exits,
\* exits by exception included, once no block is open sys.stdout, sys.stderr
\* and the root logger's handlers are those in place before the outermost
\* enter; and a text is captured by every capturer whose block was open when
\* it was written and by no other.
C24_RestoresWhatItReplaced ==
    /\ stack = <<>> => Restored
    /\ CapturedByOpenOnly

\* The same for the sequences in which no capturer is entered again while
\* its own block is open.
RestoresWithoutReentry == seen_ids = {} => C24_RestoresWhatItReplaced

\* Two distinct capturers were nested, a text was written in the outer block
\* only and another in the inner block, and an exception left both blocks.
NestedExceptionRestored ==
    /\ stack = <<>>
    /\ seen_ids = {}
    /\ pc = "running"
    /\ Traceback \in Captured("c1") \cap Captured("c2")
    /\ Len(out) = 2
    /\ out[1].open = {"c1"}
    /\ out[2].open = {"c1", "c2"}
    /\ Restored

\* A capturer left its block twice and the streams are not the original ones.
ReenteredNotRestored ==
    /\ stack = <<>>
    /\ seen_ids # {}
    /\ ~Restored

(***************************************************************************)
(* Properties of SpecThreads.                                              *)
(***************************************************************************)
PassedThreads ==
    {out[i].thread : i \in {j \in 1..Len(out) : out[j].outcome = "returned"}}

\* C25 as stated: under every interleaving of calls from several threads,
\* concurrent first calls included, at most one thread ever passes the check,
\* and every call that ended for another thread raised RuntimeError.
C25_AtMostOneThreadPasses == Cardinality(PassedThreads) <= 1

\* The same for the behaviours in which no call starts while another call
\* is running.
SequentialCallsEnforced == seen_ids = {} => C25_AtMostOneThreadPasses

\* Two threads passed the check: both made their first call together.
TwoThreadsPassed ==
    /\ Cardinality(PassedThreads) = 2
    /\ Running = {}

\* One after the other: the first caller returned, a second thread raised.
SecondThreadRefused ==
    /\ seen_ids = {}
    /\ Len(out) = 2
    /\ out[1].outcome = "returned"
    /\ out[2].outcome = "RuntimeError"
    /\ out[2].thread # out[1].thread

(***************************************************************************)
(* Properties of transform: what transform_fn is applied to.               *)
(***************************************************************************)
\* The objects transform_fn was applied to, and what is recorded for them.
Called == Range(res.calls)

Images == {res.seen[o] : o \in Called}

\* The objects directly inside the value recorded for o that match classinfo
\* and neither went through transform_fn nor came out of it.
LeftInside(o) ==
    {c \in Range(Children(res.heap, res.seen[o])) :
        /\ IsInstance(res.heap, c, args.classinfo)
        /\ c \notin Called \cup Images}

\* C26 as stated: with deep_transformation=True the children of the value
\* transform_fn returned are reconstructed too, so no matching object is left
\* directly inside it untransformed, whatever the kind of the value (custom
\* object, list, tuple or dict); with deep_transformation=False the value is
\* used as transform_fn returned it.
C26_DeepDescendsIntoResult ==
    Returned =>
        \A o \in Called :
            IF args.deep_transformation THEN LeftInside(o) = {}
            ELSE IsTransformOf(o, res.seen[o])

\* The same for the values that are not lists, tuples or dicts.
DeepDescendsIntoCustomObjects ==
    Returned =>
        \A o \in Called :
            IF args.deep_transformation
            THEN res.heap[res.seen[o]].kind \notin {"list", "tuple", "dict"}
                    => LeftInside(o) = {}
            ELSE IsTransformOf(o, res.seen[o])

\* transform_fn returned a list holding another matching object, and under
\* deep_transformation that object was left as it is.
ListResultNotDescended ==
    /\ Returned
    /\ args.deep_transformation
    /\ args.transform_fn = "children"
    /\ res.calls = <<root>>
    /\ LeftInside(root) # {}

\* transform_fn returned a custom object and the matching object inside it
\* was transformed as well.
CustomResultDescended ==
    /\ Returned
    /\ args.deep_transformation
    /\ args.transform_fn = "fresh"
    /\ Len(res.calls) = 2
    /\ res.calls[1] = root
    /\ res.calls[2] \in Range(heap[root].items)
    /\ res.seen[res.calls[2]] \in Range(res.heap[res.ret].items)
    /\ res.ret \notin DOMAIN heap

\* The originals that do not match and from which no match is reachable.
Inert(o) == \A i \in Reach(heap, o) : ~Matches(i)

\* What the result holds where the original graph holds o.
ImagesOf(o) == {p[2] : p \in {q \in ImagePairs : q[1] = o}}

\* C27 as stated: when a transform with a match returns, every non-matching
\* original from which no match is reachable appears in the result as the
\* identical original object, also when it lies on a cycle or holds itself.
C27_InertStaysIdentical ==
    (Returned /\ res.any) =>
        \A o \in Reach(heap, root) : Inert(o) => ImagesOf(o) \subseteq {o}

\* The same for the originals that lie on no cycle.
AcyclicInertStaysIdentical ==
    (Returned /\ res.any) =>
        \A o \in Reach(heap, root) :
            (Inert(o) /\ ~OnCycle(o)) => ImagesOf(o) \subseteq {o}

\* root = [L, 1] with L = [L]: the int is replaced and, although no int is
\* reachable from L, the result holds a new list in place of L.
SelfHoldingListRebuilt ==
    /\ Returned
    /\ args.classinfo = {"int"}
    /\ args.transform_fn = "fresh"
    /\ heap[root].kind = "list"
    /\ Len(heap[root].items) = 2
    /\ LET L == heap[root].items[1]
       IN  /\ heap[L] = Obj("list", 0, <<>>, <<L>>)
           /\ Matches(heap[root].items[2])
           /\ res.heap[res.ret].items[1] \notin DOMAIN heap

\* root = [S, 1] with S a tuple of a str only: the result holds S itself.
AcyclicInertKept ==
    /\ Returned
    /\ args.classinfo = {"int"}
    /\ args.transform_fn = "fresh"
    /\ heap[root].kind = "list"
    /\ Len(heap[root].items) = 2
    /\ LET S == heap[root].items[1]
       IN  /\ heap[S].kind = "tuple"
           /\ Len(heap[S].items) = 1
           /\ Inert(S)
           /\ Matches(heap[root].items[2])
           /\ res.ret \notin DOMAIN heap
           /\ res.heap[res.ret].items[1] = S

\* transform_fn was applied to no object twice.
OneCallEach ==
    \A i, j \in DOMAIN res.calls : res.calls[i] = res.calls[j] => i = j

\* Every lookup of a matching original that was answered from seen_ids was
\* answered with the value recorded for it by its call of transform_fn.
HitsGetRecordedResult ==
    \A k \in DOMAIN res.hits :
        Matches(res.hits[k].obj) => res.hits[k].ret = res.seen[res.hits[k].obj]

\* C29 as stated: within one transform call transform_fn is applied at most
\* once to a matching object, referenced from several places or lying on a
\* cycle, and every other reference to it receives the result recorded for
\* that one call.
C29_AppliedAtMostOnce ==
    /\ Transformed => OneCallEach
    /\ Returned => HitsGetRecordedResult

\* The call count alone: never two calls for one object.
NeverAppliedTwice == Transformed => OneCallEach

\* The recorded result is what every reference receives when the attributes
\* of the returned values are not rebuilt, or no match lies on a cycle.
RecordedResultOffCycles ==
    (/\ Returned
     /\ \/ ~args.deep_transformation
        \/ \A i \in Reach(heap, root) : Matches(i) => ~OnCycle(i))
        => HitsGetRecordedResult

\* root = [m, m]: one call, and the second reference receives its result.
SharedMatchCalledOnce ==
    /\ Returned
    /\ args.transform_fn = "fresh"
    /\ heap[root].kind = "list"
    /\ Len(heap[root].items) = 2
    /\ heap[root].items[1] = heap[root].items[2]
    /\ res.calls = <<heap[root].items[1]>>
    /\ Len(res.hits) = 1
    /\ res.hits[1].ret \notin DOMAIN heap
    /\ res.heap[res.ret].items = <<res.hits[1].ret, res.hits[1].ret>>

\* p.l = L, L = [p], transform(p) with copies and deep_transformation: the
\* reference to p inside L met while p's call was running received p itself,
\* and the returned copy still leads to the original p.
MatchOnCycleLeftInResult ==
    /\ Returned
    /\ args.deep_transformation
    /\ args.transform_fn = "fresh"
    /\ res.calls = <<root>>
    /\ res.ret # root
    /\ \E k \in DOMAIN res.hits : res.hits[k].obj = root /\ res.hits[k].ret = root
    /\ root \in Reach(res.heap, res.ret)

\* Every object of the input graph has the elements, keys and attribute
\* values it had before the call.
InputUntouched == \A i \in DOMAIN heap : res.heap[i] = heap[i]

\* What is returned in place of a non-matching original is the original or
\* an object made during the call.
RebuiltAreNew ==
    \A o \in DOMAIN heap :
        (o \in DOMAIN res.seen /\ ~Matches(o) /\ res.seen[o] # o)
            => res.seen[o] \notin DOMAIN heap

\* What was recorded for a non-matching original while its children were
\* rebuilt is an object made during the call.
PlaceholdersAreNew ==
    \A p \in res.held : ~Matches(p[1]) => p[2] \notin DOMAIN heap

TuplePlaceholderIsOriginal ==
    /\ Returned
    /\ heap[root].kind = "tuple"
    /\ OnCycle(root)
    /\ <<root, root>> \in res.held
    /\ res.ret # root
    /\ root \in Reach(res.heap, res.ret)

RegisteredOrInherited(t) == \E i \in DOMAIN mro(t) : mro(t)[i] \in visited

Queried == pc = "returned" /\ args.op = "is_atomic_type"

\* C28 as stated: after any sequence of register_type calls and
\* is_atomic_type queries, the answer for T is True exactly when T or one of
\* its ancestors has been registered, no memoized answer is returned stale
\* after a registration, and a type once reported atomic is reported atomic
\* by every later query.
C28_MemoCoherentWithRegistry ==
    Queried =>
        /\ res.ret = "True" <=> RegisteredOrInherited(args.type)
        /\ args.type \in seen_ids => res.ret = "True"

\* The same as long as no two registered types share a module and a
\* qualified name.
CoherentForDistinctNames ==
    (Queried /\ ~({"C1", "C2"} \subseteq visited)) =>
        /\ res.ret = "True" <=> RegisteredOrInherited(args.type)
        /\ args.type \in seen_ids => res.ret = "True"

\* A subclass was answered False from a computed memo, its base class was
\* then registered by name, and the next query answers True.
MemoRefreshedAfterRegistration ==
    /\ Queried
    /\ args.type = "MyGrid"
    /\ res.ret = "True"
    /\ visited = {"Grid"}
    /\ Len(res.registry) = 1
    /\ res.registry[1].module_name = "lib"
    /\ res.cache["C1"] = "none"

\* C1 was reported atomic; after C2, made by the same factory, was
\* registered, C1 is reported not atomic.
AtomicTypeForgotten ==
    /\ Queried
    /\ args.type = "C1"
    /\ res.ret = "False"
    /\ "C1" \in seen_ids
    /\ {"C1", "C2"} \subseteq visited

====
